---- MODULE Spec2Model ----
(***************************************************************************)
(* A model of the deep-immutability engine of bayeslite's test utilities:  *)
(*   tests/util/freeze.py     _Frozen, _freeze, deepfreeze                  *)
(*   tests/util/immutable.py  freeze, deepfreeze, MetaImmutable, Immutable  *)
(*   tests/distributions      Normal, NormalInvGammaPrior                   *)
(*                                                                         *)
(* Python objects live in a heap (a sequence of cells; the index of a cell  *)
(* is id(o)).  A value is a pair <<tag, n>>: <<"int", n>> and <<"str", n>>  *)
(* are atomic values, <<"ref", n>> is a reference to heap cell n.           *)
(* deepfreeze is recursive in the source; here the recursion is an explicit *)
(* stack of frames, one step per call, return or loop iteration.            *)
(***************************************************************************)
EXTENDS Integers, Sequences, FiniteSets, TLC

\* ------------------------------------------------------------------ bounds
\* Number of cells of the input graph handed to deepfreeze.
NNodes == 2
\* Largest number of elements / entries / fields of one input container.
MaxKids == 2
\* Number of top-level deepfreeze calls made on one heap.
MaxCalls == 3
\* Depth of nested deepfreeze calls at which the interpreter raises
\* "RuntimeError: maximum recursion depth exceeded".
RecursionLimit == 4
\* Instances handed out by constructor calls and by pickle.loads.
MaxInsts == 2
\* States written by pickle.dumps.
MaxPickles == 1
\* Operations applied to instances that have been handed out.
MaxOps == 1

\* -------------------------------------------------------------------- state
VARIABLES
    impl,    \* which module's deepfreeze runs: "freeze" (util/freeze.py) or
             \* "immutable" (util/immutable.py)
    registry, \* the dict mutable_attributes of freeze.py: class |-> the
             \* set of attribute names that are not to be frozen
    heap,    \* the objects; Len(heap) grows with every allocation
    heap0,   \* history: the heap as it was when the current top-level call
             \* was made
    pc,      \* "idle": no call running; "call": deepfreeze(arg, memo) was
             \* just entered; "iter": the top frame's loop is about to take
             \* its next element; "ret": a call has just returned retv
    arg,     \* the o of the call being entered
    argm,    \* the memo of the call being entered (an index into memos)
    retv,    \* the value the last call returned
    stack,   \* the frames of the calls that are inside their loop
    memos,   \* the memo dicts created so far: id |-> frozen value
    calls,   \* history of the finished top-level calls: [in, out, err]
    rets,    \* history of the current top-level call: <<o, deepfreeze(o)>>
             \* of every call that returned
    task,    \* the construction, restore or __setstate__ of an Immutable
             \* instance that is under way, and the statement it is at
    made,    \* history: the instances handed to a caller, by C(...) or by
             \* pickle.loads
    pickles, \* the states written by pickle.dumps
    log      \* history: the operations applied to instances and what they did

life == <<task, made, pickles, log>>

vars == <<impl, registry, heap, heap0, pc, arg, argm, retv, stack, memos, calls, rets,
          task, made, pickles, log>>

\* ------------------------------------------------------------------ values
Int1 == <<"int", 1>>
Int2 == <<"int", 2>>
\* attribute names are Python strings
Str(name) == <<"str", name>>
kwds == Str("kwds")
\* the names in the __dict__ of a scipy rv_frozen, in the order used here
FieldNames == <<"kwds", "args", "dist">>
None == <<"none", 0>>
\* slice(1): a built-in value that is immutable and has no hash
Slice1 == <<"slice", 1>>

Ref(n) == <<"ref", n>>
IsRef(v) == v[1] = "ref"
Id(v) == v[2]

\* A heap cell.  keys/vals: for a list, tuple, set or frozenset vals are the
\* elements; for a dict or frozendict keys[i] maps to vals[i]; for an object
\* keys are the names in o.__dict__ and vals their values; for a _Frozen
\* wrapper vals = <<_value>>; for an ndarray vals is the data and w the
\* WRITEABLE flag.  cls is the class of an object ("" for the others).
Cell(kind, cls, keys, vals, w) ==
    [kind |-> kind, cls |-> cls, keys |-> keys, vals |-> vals, w |-> w]

KindOf(h, v) == IF IsRef(v) THEN h[Id(v)].kind ELSE v[1]

SeqKinds == {"list", "tuple"}
MapKinds == {"dict", "frozendict"}
SetKinds == {"set", "frozenset"}

Range(s) == {s[i] : i \in DOMAIN s}

\* freeze.py:21-23, the exclusion registry as the module defines it, and
\* the lookup of a class in it.
Registered == [cls \in {"rv_frozen"} |-> {kwds}]
mutable_attributes(cls) == IF cls \in DOMAIN registry THEN registry[cls] ELSE {}

\* freeze.py:69-71
get_mutable_attributes(h, v) ==
    IF IsRef(v) /\ h[Id(v)].kind = "obj" THEN mutable_attributes(h[Id(v)].cls)
    ELSE {}

\* frozen_types with tuple listed as well, and without the wrapper class.
frozen_types_tuple ==
    {"int", "str", "none", "hash", "slice", "frozenset", "Frozen", "tuple"}
frozen_types_unwrapped == {"int", "str", "none", "hash", "slice", "frozenset"}

\* freeze.py:41-51 and 106: isinstance(o, frozen_types).  Numbers and strings
\* are atomic; of the containers only frozenset is listed (tuple and
\* frozendict are not); slice is listed at line 49; _Frozen is added at line
\* 106.  ("hash" is the integer hash() returns.)
frozen_types == {"int", "str", "none", "hash", "slice", "frozenset", "Frozen"}

\* The subclasses of Immutable: test_immutable.py:9 and 121, normal.py:12 and
\* 33 (through TestDistribution, distribution.py:10).
ImmutableClasses ==
    {"ImmutableTest", "DEBUGTest", "Normal", "NormalInvGammaPrior"}

\* ---------------------------------------------------------------- equality
\* Python's == on the modelled values.  Containers compare their elements
\* (an identical element counts as equal without a call of ==); mappings
\* compare as dicts whether frozen or not, sets likewise; a _Frozen wrapper
\* compares its _value (freeze.py:100-101); a plain object compares by
\* identity; two numeric buffers are equal when all their elements are
\* (numpy compares element by element).  fuel bounds the nesting: Python
\* gives up at the recursion limit.
RECURSIVE PyEq(_, _, _, _)
PyEq(h, a, b, fuel) ==
    IF a = b THEN TRUE
    ELSE IF ~IsRef(a) \/ ~IsRef(b) \/ fuel = 0 THEN FALSE
    ELSE LET x == h[Id(a)]
             y == h[Id(b)]
             In(e, s) == \E j \in DOMAIN s : PyEq(h, e, s[j], fuel - 1)
         IN  CASE x.kind \in SeqKinds /\ y.kind = x.kind ->
                    /\ Len(x.vals) = Len(y.vals)
                    /\ \A i \in DOMAIN x.vals : PyEq(h, x.vals[i], y.vals[i], fuel - 1)
               [] x.kind \in SetKinds /\ y.kind \in SetKinds ->
                    /\ Len(x.vals) = Len(y.vals)
                    /\ \A i \in DOMAIN x.vals : In(x.vals[i], y.vals)
               [] x.kind \in MapKinds /\ y.kind \in MapKinds ->
                    /\ Len(x.keys) = Len(y.keys)
                    /\ \A i \in DOMAIN x.keys :
                         \E j \in DOMAIN y.keys :
                            /\ PyEq(h, x.keys[i], y.keys[j], fuel - 1)
                            /\ PyEq(h, x.vals[i], y.vals[j], fuel - 1)
               [] x.kind = "Frozen" /\ y.kind = "Frozen" ->
                    PyEq(h, x.vals[1], y.vals[1], fuel - 1)
               [] x.kind = "ndarray" /\ y.kind = "ndarray" -> x.vals = y.vals
               [] OTHER -> FALSE

Eq(h, a, b) == PyEq(h, a, b, Len(h) + 1)

\* hash(v) succeeds for every value.
PyHashable_any(h, v, fuel) == TRUE

\* hash(v) succeeds: lists, dicts, sets and slices are unhashable, a tuple
\* hashes its elements, a frozendict its items, a _Frozen wrapper its _value
\* (freeze.py:97-98), a plain object hashes by identity.
RECURSIVE PyHashable(_, _, _)
PyHashable(h, v, fuel) ==
    IF ~IsRef(v) THEN v[1] # "slice"
    ELSE IF fuel = 0 THEN FALSE
    ELSE LET x == h[Id(v)]
         IN  CASE x.kind \in {"list", "dict", "set", "ndarray"} -> FALSE
               [] x.kind \in {"tuple", "Frozen"} ->
                    \A i \in DOMAIN x.vals : PyHashable(h, x.vals[i], fuel - 1)
               [] x.kind = "frozendict" ->
                    \A i \in DOMAIN x.vals :
                        /\ PyHashable(h, x.keys[i], fuel - 1)
                        /\ PyHashable(h, x.vals[i], fuel - 1)
               [] OTHER -> TRUE

Hashable(h, v) == PyHashable(h, v, Len(h) + 1)

\* isinstance(o, frozen_types).  immutable.py:264 adds Immutable to its own
\* frozen_types; freeze.py does not know the class.
IsFrozenType(h, v) ==
    \/ KindOf(h, v) \in frozen_types
    \/ /\ impl = "immutable"
       /\ KindOf(h, v) = "obj"
       /\ h[Id(v)].cls \in ImmutableClasses

\* -------------------------------------------------------------- allocation
\* A new cell.  CPython keeps one empty tuple and one empty frozenset:
\* tuple([]) and frozenset(set()) return that object, not a new one.
Alloc(h, c) ==
    LET same == {i \in DOMAIN h : h[i] = c}
    IN  IF c.kind \in {"tuple", "frozenset"} /\ c.vals = <<>> /\ same # {}
        THEN [h |-> h, r |-> Ref(CHOOSE i \in same : TRUE)]
        ELSE [h |-> Append(h, c), r |-> Ref(Len(h) + 1)]

\* dict(pairs) / set(elements): a key equal to an earlier one does not add an
\* entry; the earlier key object stays and takes the later value.
RECURSIVE DictOf(_, _, _)
DictOf(h, ks, vs) ==
    IF ks = <<>> THEN [keys |-> <<>>, vals |-> <<>>]
    ELSE LET n == Len(ks)
             d == DictOf(h, SubSeq(ks, 1, n - 1), SubSeq(vs, 1, n - 1))
             hit == {j \in DOMAIN d.keys : Eq(h, d.keys[j], ks[n])}
         IN  IF hit = {} THEN [keys |-> Append(d.keys, ks[n]),
                               vals |-> Append(d.vals, vs[n])]
             ELSE [keys |-> d.keys,
                   vals |-> [j \in DOMAIN d.vals |->
                               IF j \in hit THEN vs[n] ELSE d.vals[j]]]

SetOf(h, es) == DictOf(h, es, es).keys

\* ------------------------------------------------------------------ _freeze
\* freeze.py:109-128 and immutable.py:95-110.  Freezes the top level only:
\* frozen types come back as they are, a mapping becomes a new frozendict, a
\* set a new frozenset, a sequence a tuple (tuple(t) of a tuple is t
\* itself), an ndarray a read-only copy (freeze.py:122-125; immutable.py's
\* freeze has no such branch), anything else is wrapped in _Frozen.  Returns
\* the heap after the call and the result.
_freeze(h, o) ==
    IF IsFrozenType(h, o) THEN [h |-> h, r |-> o]
    ELSE LET x == h[Id(o)]
         IN  CASE x.kind \in MapKinds ->
                    Alloc(h, Cell("frozendict", "", x.keys, x.vals, FALSE))
               [] x.kind \in SetKinds ->
                    Alloc(h, Cell("frozenset", "", <<>>, x.vals, FALSE))
               [] x.kind = "tuple" -> [h |-> h, r |-> o]
               [] x.kind = "list" ->
                    Alloc(h, Cell("tuple", "", <<>>, x.vals, FALSE))
               [] x.kind = "ndarray" /\ impl = "freeze" ->
                    Alloc(h, Cell("ndarray", "", <<>>, x.vals, FALSE))
               [] OTHER ->
                    Alloc(h, Cell("Frozen", "", <<>>, <<o>>, FALSE))

\* No instance is being initialized.  Otherwise: op is "call" (C(*args, **kw),
\* immutable.py:193-201), "restore" (pickle.loads) or "setstate" (an explicit
\* i.__setstate__(state)); o the instance; args, kw the arguments; full
\* whether __initialize_instance__ runs or __init__ alone; step the statement
\* reached; i and acc the position and the output of the generator of
\* immutable.py:230-231; src the pickle restored from.
NoTask ==
    [op |-> "none", step |-> "none", o |-> None, cls |-> "", args |-> None,
     kw |-> None, full |-> FALSE, i |-> 0, acc |-> <<>>, src |-> 0]

\* A frame: the call deepfreeze(o, memo) is in the loop of branch br
\* ("map": line 150, "set": 152, "seq": 154, "obj": 159-161) and will take
\* element i next; acc holds the frozen elements produced so far.
Frame(o, br, m) == [o |-> o, br |-> br, i |-> 1, acc |-> <<>>, m |-> m]

Top == stack[Len(stack)]
Pop == SubSeq(stack, 1, Len(stack) - 1)

\* The elements the loop of frame f walks, read from the heap as it is now:
\* k1, v1, k2, v2, ... for a mapping.
Elems(h, f) ==
    LET x == h[Id(f.o)]
    IN  IF f.br = "map"
        THEN [j \in 1..(2 * Len(x.keys)) |->
                 IF j % 2 = 1 THEN x.keys[(j + 1) \div 2] ELSE x.vals[j \div 2]]
        ELSE x.vals

MemoPut(m, id, v) == [x \in (DOMAIN m) \cup {id} |-> IF x = id THEN v ELSE m[x]]
EmptyMemo == [x \in {} |-> None]

\* ------------------------------------------------------------- input graphs
\* The graphs deepfreeze is called on: NNodes cells, cell 1 the root, every
\* cell a list, tuple, dict, set, frozenset, plain object or rv_frozen
\* object with up to MaxKids elements, each an atom or a reference to any
\* cell (so elements can be shared and graphs can be cyclic).
InputKinds == {"list", "tuple", "dict", "set", "frozenset", "object", "rv_frozen",
               "ndarray"}
NodeVals == {Int1, Int2} \cup {Ref(n) : n \in 1..NNodes}
RefsIn(h) == {Id(v) : v \in {w \in UNION {Range(h[n].vals) : n \in DOMAIN h} : IsRef(w)}}
KidSeqs == UNION {[1..n -> NodeVals] : n \in 0..MaxKids}

\* dict entry i has the key i; field i of an object is named FieldNames[i].
Node(k, vs) ==
    CASE k = "dict" -> Cell("dict", "", [i \in DOMAIN vs |-> <<"int", i>>], vs, FALSE)
      [] k \in {"object", "rv_frozen"} ->
            Cell("obj", k, [i \in DOMAIN vs |-> Str(FieldNames[i])], vs, FALSE)
      [] k = "ndarray" -> Cell("ndarray", "", <<>>, vs, TRUE)
      [] OTHER -> Cell(k, "", <<>>, vs, FALSE)

Kids(h, n) == {Id(v) : v \in {w \in Range(h[n].vals) \cup Range(h[n].keys) : IsRef(w)}}

\* The cells reachable from the cells of S by following references through
\* cells whose kind is in ks.
RECURSIVE ReachVia(_, _, _)
ReachVia(h, S, ks) ==
    LET T == S \cup UNION {Kids(h, n) : n \in {m \in S : h[m].kind \in ks}}
    IN  IF T = S THEN S ELSE ReachVia(h, T, ks)

AllKinds == {"list", "tuple", "dict", "frozendict", "set", "frozenset",
             "obj", "Frozen", "ndarray"}

\* What a Python program can build: set elements are hashable and distinct,
\* a cycle passes through a mutable cell (a tuple or frozenset holds only
\* objects older than itself), there is one empty tuple and one empty
\* frozenset, a numeric buffer holds numbers, and every cell is reachable
\* from the root.
WellFormed(h) ==
    /\ RefsIn(h) \subseteq DOMAIN h
    /\ \A n \in DOMAIN h : h[n].kind = "ndarray" =>
          \A i \in DOMAIN h[n].vals : ~IsRef(h[n].vals[i])
    /\ \A n \in DOMAIN h : h[n].kind \in SetKinds =>
          /\ \A i \in DOMAIN h[n].vals : Hashable(h, h[n].vals[i])
          /\ \A i, j \in DOMAIN h[n].vals : i # j => ~Eq(h, h[n].vals[i], h[n].vals[j])
    /\ \A n \in DOMAIN h : h[n].kind \in {"tuple", "frozenset"} =>
          n \notin ReachVia(h, Kids(h, n), {"tuple", "frozenset"})
    /\ \A n, m \in DOMAIN h :
          (n # m /\ h[n].vals = <<>> /\ h[n].kind \in {"tuple", "frozenset"})
             => h[n] # h[m]
    /\ ReachVia(h, {1}, AllKinds) = DOMAIN h

InputHeaps ==
    {h \in UNION {[1..n -> {Node(k, vs) : k \in InputKinds, vs \in KidSeqs}] :
                     n \in 1..NNodes} :
        WellFormed(h)}

\* Dicts keyed by objects (a plain object hashes by identity): by two
\* objects, and by an object and a wrapper an earlier deepfreeze(o) made
\* for it.
KeyedHeaps ==
    {<<Cell("dict", "", <<Ref(2), Ref(3)>>, <<Int1, Int2>>, FALSE),
       Cell("obj", "object", <<>>, <<>>, FALSE), x>> :
        x \in {Cell("obj", "object", <<>>, <<>>, FALSE),
               Cell("Frozen", "", <<>>, <<Ref(2)>>, FALSE)}}

Root == Ref(1)

\* --------------------------------------------------------------- deepfreeze
Init ==
    /\ impl \in {"freeze", "immutable"}
    /\ registry = Registered
    /\ heap \in InputHeaps \cup KeyedHeaps
    /\ heap0 = <<>>
    /\ pc = "idle"
    /\ arg = None
    /\ argm = 0
    /\ retv = None
    /\ stack = <<>>
    /\ memos = <<>>
    /\ calls = <<>>
    /\ rets = {}
    /\ task = NoTask
    /\ made = <<>>
    /\ pickles = <<>>
    /\ log = <<>>

\* A caller invokes deepfreeze(v) with no memo (freeze.py:142: a new dict),
\* on the graph or on what an earlier call returned.
CallTop(v) ==
    /\ pc = "idle"
    /\ Len(calls) < MaxCalls
    /\ pc' = "call"
    /\ arg' = v
    /\ argm' = 1
    /\ memos' = <<EmptyMemo>>
    /\ rets' = {}
    /\ heap0' = heap
    /\ UNCHANGED <<life, impl, registry, heap, retv, stack, calls>>

Returns(o, r) ==
    /\ pc' = "ret"
    /\ arg' = o
    /\ retv' = r
    /\ rets' = rets \cup {<<o, r>>}

Overflow == Len(stack) >= RecursionLimit

\* The call nests deeper than the interpreter allows: RuntimeError unwinds
\* every frame (deepfreeze catches nothing).
RaiseRecursion ==
    /\ pc = "call"
    /\ Overflow
    /\ pc' = "idle"
    /\ calls' = Append(calls, [in |-> stack[1].o, out |-> None, err |-> "RuntimeError"])
    /\ stack' = <<>>
    /\ UNCHANGED <<life, impl, registry, heap0, heap, arg, argm, retv, memos, rets>>

\* freeze.py:144-145: _id in memo
InMemo == IsRef(arg) /\ Id(arg) \in DOMAIN memos[argm]

\* freeze.py:144-146
MemoHit ==
    /\ pc = "call"
    /\ ~Overflow
    /\ InMemo
    /\ Returns(arg, memos[argm][Id(arg)])
    /\ UNCHANGED <<life, impl, registry, heap0, heap, argm, stack, memos, calls>>

\* freeze.py:147-148
ReturnFrozenType ==
    /\ pc = "call"
    /\ ~Overflow
    /\ ~InMemo
    /\ IsFrozenType(heap, arg)
    /\ Returns(arg, arg)
    /\ UNCHANGED <<life, impl, registry, heap0, heap, argm, stack, memos, calls>>

\* The branch deepfreeze takes for a value that is neither memoized nor of a
\* frozen type (freeze.py:149-155).
Branch(h, o) ==
    CASE h[Id(o)].kind \in MapKinds -> "map"
      [] h[Id(o)].kind \in SetKinds -> "set"
      [] h[Id(o)].kind \in SeqKinds -> "seq"
      [] h[Id(o)].kind = "obj" -> "obj"
      [] OTHER -> "other"

\* freeze.py:149-161: enter the generator / the loop over o.__dict__.
EnterLoop ==
    /\ pc = "call"
    /\ ~Overflow
    /\ ~InMemo
    /\ ~IsFrozenType(heap, arg)
    /\ Branch(heap, arg) # "other"
    /\ stack' = Append(stack, Frame(arg, Branch(heap, arg), argm))
    /\ pc' = "iter"
    /\ UNCHANGED <<life, impl, registry, heap0, heap, arg, argm, retv, memos, calls, rets>>

\* freeze.py:162-165 for an o without __dict__ (an ndarray).
WrapOther ==
    /\ pc = "call"
    /\ ~Overflow
    /\ ~InMemo
    /\ ~IsFrozenType(heap, arg)
    /\ Branch(heap, arg) = "other"
    /\ LET a == _freeze(heap, arg)
       IN  /\ heap' = a.h
           /\ memos' = [memos EXCEPT ![argm] = MemoPut(@, Id(arg), a.r)]
           /\ Returns(arg, a.r)
    /\ UNCHANGED <<life, impl, registry, heap0, argm, stack, calls>>

\* freeze.py:160: a field named in the exclusion registry is left alone
\* (immutable.py:134-138 has no registry and freezes every field).
Excluded(h, f) ==
    /\ impl = "freeze"
    /\ f.br = "obj"
    /\ h[Id(f.o)].keys[f.i] \in get_mutable_attributes(h, f.o)

SkipMutable ==
    /\ pc = "iter"
    /\ Top.i <= Len(Elems(heap, Top))
    /\ Excluded(heap, Top)
    /\ stack' = [stack EXCEPT ![Len(stack)].i = @ + 1]
    /\ UNCHANGED <<life, impl, registry, heap0, heap, pc, arg, argm, retv, memos, calls, rets>>

\* immutable.py:138 recurses on a field with deepfreeze(v), not f(v): the
\* call gets no memo and makes a new one.
FreshMemo(f) == impl = "immutable" /\ f.br = "obj"

\* f(k), f(v), f(e): the recursive call on the next element, with the memo
\* of this call.
NextElem ==
    /\ pc = "iter"
    /\ Top.i <= Len(Elems(heap, Top))
    /\ ~Excluded(heap, Top)
    /\ pc' = "call"
    /\ arg' = Elems(heap, Top)[Top.i]
    /\ memos' = IF FreshMemo(Top) THEN Append(memos, EmptyMemo) ELSE memos
    /\ argm' = IF FreshMemo(Top) THEN Len(memos) + 1 ELSE Top.m
    /\ UNCHANGED <<life, impl, registry, heap0, heap, retv, stack, calls, rets>>

\* The recursive call returned into the loop, and nothing is stored into the
\* object walked.
Deliver_pure ==
    /\ pc = "ret"
    /\ stack # <<>>
    /\ pc' = "iter"
    /\ stack' = [stack EXCEPT ![Len(stack)].i = @ + 1,
                              ![Len(stack)].acc = Append(@, retv)]
    /\ UNCHANGED <<life, impl, registry, heap0, heap, arg, argm, retv, memos, calls, rets>>

\* The recursive call returned into the loop: the generator yields the frozen
\* element, or line 161 stores it, o.__dict__[k] = f(v).
Deliver ==
    /\ pc = "ret"
    /\ stack # <<>>
    /\ pc' = "iter"
    /\ stack' = [stack EXCEPT ![Len(stack)].i = @ + 1,
                              ![Len(stack)].acc = Append(@, retv)]
    /\ heap' = IF Top.br = "obj"
               THEN [heap EXCEPT ![Id(Top.o)].vals[Top.i] = retv]
               ELSE heap
    /\ UNCHANGED <<life, impl, registry, heap0, arg, argm, retv, memos, calls, rets>>

\* The temporary built with a set(...) in place of the list(...): an element
\* equal to an earlier one is dropped.
Temp_set(h, f) ==
    LET odd == [j \in 1..(Len(f.acc) \div 2) |-> f.acc[2 * j - 1]]
        even == [j \in 1..(Len(f.acc) \div 2) |-> f.acc[2 * j]]
    IN  CASE f.br = "map" ->
               Cell("dict", "", DictOf(h, odd, even).keys, DictOf(h, odd, even).vals, FALSE)
          [] f.br = "set" -> Cell("set", "", <<>>, SetOf(h, f.acc), FALSE)
          [] OTHER -> Cell("list", "", <<>>, SetOf(h, f.acc), FALSE)

\* The temporary dict(...), set(...) or list(...) of the frozen elements that
\* lines 150, 152 and 154 hand to _freeze.
Temp(h, f) ==
    LET odd == [j \in 1..(Len(f.acc) \div 2) |-> f.acc[2 * j - 1]]
        even == [j \in 1..(Len(f.acc) \div 2) |-> f.acc[2 * j]]
    IN  CASE f.br = "map" ->
               Cell("dict", "", DictOf(h, odd, even).keys, DictOf(h, odd, even).vals, FALSE)
          [] f.br = "set" -> Cell("set", "", <<>>, SetOf(h, f.acc), FALSE)
          [] OTHER -> Cell("list", "", <<>>, f.acc, FALSE)

\* freeze.py:150, 152, 154: the loop is exhausted; return _freeze(temporary).
\* The result is not stored in memo.
FinishContainer ==
    /\ pc = "iter"
    /\ Top.i > Len(Elems(heap, Top))
    /\ Top.br # "obj"
    /\ LET t == Alloc(heap, Temp(heap, Top))
           a == _freeze(t.h, t.r)
       IN  /\ heap' = a.h
           /\ Returns(Top.o, a.r)
    /\ stack' = Pop
    /\ UNCHANGED <<life, impl, registry, heap0, argm, memos, calls>>

\* freeze.py:162-165: the fields are frozen; memo[_id] = _freeze(o).
FinishObject ==
    /\ pc = "iter"
    /\ Top.i > Len(Elems(heap, Top))
    /\ Top.br = "obj"
    /\ LET a == _freeze(heap, Top.o)
       IN  /\ heap' = a.h
           /\ memos' = [memos EXCEPT ![Top.m] = MemoPut(@, Id(Top.o), a.r)]
           /\ Returns(Top.o, a.r)
    /\ stack' = Pop
    /\ UNCHANGED <<life, impl, registry, heap0, argm, calls>>

\* The top-level call never hands its result to its caller.
ReturnTop_never ==
    /\ pc = "ret"
    /\ stack = <<>>
    /\ UNCHANGED vars

\* The top-level call returns to its caller.
ReturnTop ==
    /\ pc = "ret"
    /\ stack = <<>>
    /\ pc' = "idle"
    /\ calls' = Append(calls, [in |-> arg, out |-> retv, err |-> ""])
    /\ UNCHANGED <<life, impl, registry, heap0, heap, arg, argm, retv, stack, memos, rets>>

Outs == {calls[i].out : i \in {j \in DOMAIN calls : calls[j].err = ""}}

Next ==
    \/ \E v \in {Root} \cup Outs : CallTop(v)
    \/ RaiseRecursion
    \/ MemoHit
    \/ ReturnFrozenType
    \/ EnterLoop
    \/ WrapOther
    \/ SkipMutable
    \/ NextElem
    \/ Deliver
    \/ FinishContainer
    \/ FinishObject
    \/ ReturnTop

Spec == Init /\ [][Next]_vars

\* The steps of a running call.  A call, once made, runs on: the interpreter
\* executes the next statement of deepfreeze whenever there is one.
Walk ==
    \/ RaiseRecursion
    \/ MemoHit
    \/ ReturnFrozenType
    \/ EnterLoop
    \/ WrapOther
    \/ SkipMutable
    \/ NextElem
    \/ Deliver
    \/ FinishContainer
    \/ FinishObject
    \/ ReturnTop

\* Top-level calls followed to their end under the fairness condition.
MaxRuns == 1

NextFair ==
    \/ \E v \in {Root} \cup Outs : Len(calls) < MaxRuns /\ CallTop(v)
    \/ Walk

SpecFair == Init /\ [][NextFair]_vars /\ WF_vars(Walk)

\* ================================================================ Immutable
\* The construction and use of instances of the subclasses of Immutable
\* (util/immutable.py), which use immutable.py's own deepfreeze.

\* __DEBUG__ left on in every class.
__DEBUG___on(cls) == TRUE

\* immutable.py:178 (__DEBUG__ = __debug__, True unless python -O);
\* test_immutable.py:121-123 turns it off for DEBUGTest.
__DEBUG__(cls) == cls # "DEBUGTest"

\* The parameters of __init__: test_immutable.py:11, normal.py:16 and 39.
Params(cls) ==
    CASE cls \in {"ImmutableTest", "DEBUGTest"} -> <<"a", "b", "c", "k">>
      [] cls = "Normal" -> <<"mu", "var">>
      [] cls = "NormalInvGammaPrior" -> <<"mumu", "sigshape", "sigrate", "n0">>

\* their default values
Defaults(cls) ==
    CASE cls \in {"ImmutableTest", "DEBUGTest"} -> [n \in {"k"} |-> <<"int", 20>>]
      [] cls = "Normal" -> [n \in {} |-> None]
      [] cls = "NormalInvGammaPrior" -> [n \in {"n0"} |-> Int1]

\* Normal and NormalInvGammaPrior define __getstate__ and __setstate__ of
\* their own (normal.py:26-30, 95-102); the others inherit Immutable's.
OverridesState(cls) == cls \in {"Normal", "NormalInvGammaPrior"}

\* o.__dict__ lookups
HasAttr(h, o, name) == IsRef(o) /\ h[Id(o)].kind = "obj" /\ Str(name) \in Range(h[Id(o)].keys)
GetAttr(h, o, name) ==
    h[Id(o)].vals[CHOOSE j \in DOMAIN h[Id(o)].keys : h[Id(o)].keys[j] = Str(name)]

\* object.__setattr__(o, name, v): no class here defines __setattr__, so
\* o.name = v stores into o.__dict__.
SetAttr(h, o, name, v) ==
    IF HasAttr(h, o, name)
    THEN [h EXCEPT ![Id(o)].vals =
             [j \in DOMAIN @ |-> IF h[Id(o)].keys[j] = Str(name) THEN v ELSE @[j]]]
    ELSE [h EXCEPT ![Id(o)].keys = Append(@, Str(name)),
                   ![Id(o)].vals = Append(@, v)]

\* object.__delattr__(o, name) of an attribute that is there
DelAttr(h, o, name) ==
    LET x == h[Id(o)]
        keep == {j \in DOMAIN x.keys : x.keys[j] # Str(name)}
        Sel(q) == [j \in 1..Cardinality(keep) |->
                      q[CHOOSE m \in keep : Cardinality({n \in keep : n < m}) = j - 1]]
    IN  [h EXCEPT ![Id(o)].keys = Sel(x.keys), ![Id(o)].vals = Sel(x.vals)]

RECURSIVE SetAttrs(_, _, _, _)
SetAttrs(h, o, names, vs) ==
    IF names = <<>> THEN h
    ELSE SetAttrs(SetAttr(h, o, names[1], vs[1]), o, Tail(names), Tail(vs))

\* The arguments as __init__ receives them: positional, then by keyword, then
\* the default.
Bind(h, cls, args, kw) ==
    LET pos == h[Id(args)].vals
        kd == h[Id(kw)]
        P == Params(cls)
    IN  [i \in DOMAIN P |->
            IF i <= Len(pos) THEN pos[i]
            ELSE IF Str(P[i]) \in Range(kd.keys)
                 THEN kd.vals[CHOOSE j \in DOMAIN kd.keys : kd.keys[j] = Str(P[i])]
                 ELSE Defaults(cls)[P[i]]]

\* rvs.norm(mu, sqrt(var)), rvs.invgamma(sigshape, scale=sigrate): a scipy
\* rv_frozen, which keeps its arguments in self.args and self.kwds.
rv_frozen(h, a, ks, kvs) ==
    LET t == Alloc(h, Cell("tuple", "", <<>>, a, FALSE))
        d == Alloc(t.h, Cell("dict", "", ks, kvs, FALSE))
    IN  Alloc(d.h, Cell("obj", "rv_frozen", <<kwds, Str("args")>>, <<d.r, t.r>>, FALSE))

\* self.__init__(*args, **kwargs): test_immutable.py:11-12, normal.py:16-18
\* and 39-47 (with arguments that pass the checks of lines 40-43).
__init__(h, o, args, kw) ==
    LET cls == h[Id(o)].cls
        b == Bind(h, cls, args, kw)
    IN  CASE cls \in {"ImmutableTest", "DEBUGTest"} ->
               SetAttrs(h, o, <<"a", "b", "c", "k">>, b)
          [] cls = "Normal" ->
               LET n == rv_frozen(SetAttrs(h, o, <<"mu", "var">>, b), b, <<>>, <<>>)
               IN  SetAttr(n.h, o, "n", n.r)
          [] cls = "NormalInvGammaPrior" ->
               LET n == rv_frozen(h, <<b[2]>>, <<Str("scale")>>, <<b[3]>>)
               IN  SetAttrs(n.h, o, <<"sigma", "sigshape", "sigrate", "mumu", "n0">>,
                            <<n.r, b[2], b[3], b[1], b[4]>>)

\* The value of v as a mathematical object: a sequence by its elements, a
\* mapping by its items, a set by its elements, a wrapper by its _value, a
\* plain object by its identity.  With frz the kind of a sequence is left
\* out (a list and the tuple it freezes to are then the same value).
RECURSIVE Abs(_, _, _, _)
Abs(h, v, frz, fuel) ==
    IF ~IsRef(v) \/ fuel = 0 THEN v
    ELSE LET x == h[Id(v)]
             A(e) == Abs(h, e, frz, fuel - 1)
         IN  CASE x.kind \in SeqKinds ->
                    <<IF frz THEN "tuple" ELSE x.kind, [j \in DOMAIN x.vals |-> A(x.vals[j])]>>
               [] x.kind \in MapKinds ->
                    <<"map", {<<A(x.keys[j]), A(x.vals[j])>> : j \in DOMAIN x.keys}>>
               [] x.kind \in SetKinds -> <<"set", {A(x.vals[j]) : j \in DOMAIN x.vals}>>
               [] x.kind = "Frozen" -> <<"Frozen", A(x.vals[1])>>
               [] OTHER -> v

\* An exception that reaches the caller, and the results of a comparison.
Raise(e) == <<"raise", e>>
True == <<"bool", TRUE>>
False == <<"bool", FALSE>>

\* The hash of a hashable v: equal values hash alike.  Modelled without
\* collisions, as the value hashed: a tuple by the hashes of its elements, a
\* frozendict by those of its items, a frozenset by those of its elements, a
\* wrapper by _Frozen.__hash__, a plain object by its identity.
RECURSIVE PyHash(_, _, _)
RECURSIVE Frozen__hash__(_, _, _)
PyHash(h, v, fuel) ==
    IF ~IsRef(v) \/ fuel = 0 THEN v
    ELSE LET x == h[Id(v)]
             H(e) == PyHash(h, e, fuel - 1)
         IN  CASE x.kind \in SeqKinds -> <<"tuple", [j \in DOMAIN x.vals |-> H(x.vals[j])]>>
               [] x.kind \in MapKinds ->
                    <<"map", {<<H(x.keys[j]), H(x.vals[j])>> : j \in DOMAIN x.keys}>>
               [] x.kind \in SetKinds -> <<"set", {H(x.vals[j]) : j \in DOMAIN x.vals}>>
               [] x.kind = "Frozen" -> Frozen__hash__(h, v, fuel)
               [] OTHER -> v

\* freeze.py:97-98, _Frozen.__hash__: hash(self._value); immutable.py:163-164
\* is self._value.__hash__().
Frozen__hash__(h, self, fuel) == PyHash(h, h[Id(self)].vals[1], fuel - 1)

\* hash(v): a TypeError for an unhashable v.
hash(h, v) ==
    IF Hashable(h, v) THEN <<"hash", PyHash(h, v, Len(h) + 1)>> ELSE Raise("TypeError")

\* freeze.py:59-66: the placeholder _Frozen.__eq__ compares with when the
\* other operand has no _value; immutable.py:145-146 and 167 use the class
\* UnusedObject in its place.
unequal == <<"class", "UnEqual">>

\* _Frozen.__eq__ looking through the wrapper: the _value of self compared
\* with the other operand as it is.
Frozen__eq___transparent(h, self, other) ==
    IF Eq(h, h[Id(self)].vals[1], other) THEN True ELSE False

\* freeze.py:100-101, _Frozen.__eq__ (immutable.py:166-167):
\* self._value == getattr(other, '_value', unequal)
Frozen__eq__(h, self, other) ==
    IF Eq(h, h[Id(self)].vals[1],
          IF KindOf(h, other) = "Frozen" THEN h[Id(other)].vals[1] ELSE unequal)
    THEN True ELSE False

\* immutable.py:145-146
UnusedObject == <<"class", "UnusedObject">>

\* getattr(other, name, default)
getattr(h, other, name, default) ==
    IF HasAttr(h, other, name) THEN GetAttr(h, other, name) ELSE default

\* == as object identity, the default of object.
__eq___identity(h, self, other) == IF self = other THEN True ELSE False

\* immutable.py:260-262, Immutable.__eq__
__eq__(h, self, other) ==
    IF ~HasAttr(h, self, "__initial_values__") THEN Raise("AttributeError")
    ELSE IF Eq(h, GetAttr(h, self, "__initial_values__"),
               getattr(h, other, "__initial_values__", UnusedObject))
         THEN True ELSE False

\* immutable.py:257-258, Immutable.__hash__: inside class Immutable the name
\* self.__hash is compiled to self._Immutable__hash.
__hash__(h, self) ==
    IF HasAttr(h, self, "_Immutable__hash") THEN GetAttr(h, self, "_Immutable__hash")
    ELSE Raise("AttributeError")

\* ------------------------------------------------------------- constructor
\* An argument expression of a constructor call: an atom, or <<kind, elems>>
\* for a list, tuple or dict display (a dict display maps element i to i).
IsAtom(t) == t[1] \in {"int", "str", "none", "slice"}

RECURSIVE Build(_, _)
RECURSIVE BuildAll(_, _)
\* evaluates the expression t: allocates what it denotes
Build(h, t) ==
    IF IsAtom(t) THEN [h |-> h, r |-> t]
    ELSE LET b == BuildAll(h, t[2])
         IN  Alloc(b.h, Cell(t[1], "",
                             IF t[1] = "dict" THEN [j \in DOMAIN b.rs |-> <<"int", j>>]
                             ELSE <<>>,
                             b.rs, FALSE))
BuildAll(h, ts) ==
    IF ts = <<>> THEN [h |-> h, rs |-> <<>>]
    ELSE LET a == Build(h, ts[1])
             b == BuildAll(a.h, Tail(ts))
         IN  [h |-> b.h, rs |-> <<a.r>> \o b.rs]

\* The constructor calls made: those of test_immutable.py:55, 109 and 127,
\* the same with a list, a tuple and a slice, one with a slice passed by
\* keyword, and one call of each distribution.
ArgExprs ==
    {Int1, <<"list", <<Int1>>>>, <<"tuple", <<Int1>>>>, <<"dict", <<>>>>, Slice1}
kslice == <<<<"k", Slice1>>>>
k5 == <<<<"k", <<"int", 5>>>>>>
CallExprs ==
    {[cls |-> "ImmutableTest", pos |-> <<a, Int2, <<"int", 3>>>>, kw |-> <<>>] :
        a \in ArgExprs}
    \cup {[cls |-> c, pos |-> <<Int1, Int2, <<"int", 3>>>>, kw |-> k5] :
             c \in {"ImmutableTest", "DEBUGTest"}}
    \cup {[cls |-> "ImmutableTest", pos |-> <<Int1, Int2, <<"int", 3>>>>, kw |-> kslice],
          [cls |-> "DEBUGTest", pos |-> <<<<"list", <<Int1>>>>, Int2, <<"int", 3>>>>,
           kw |-> <<>>],
          [cls |-> "Normal", pos |-> <<Int2, Int1>>, kw |-> <<>>],
          [cls |-> "NormalInvGammaPrior", pos |-> <<Int1, Int1, Int2>>, kw |-> <<>>]}

\* immutable.py:223
UnhashableMessage == "Immutable %s initialized with unhashable arguments"

\* the entries of log for a construction that ended at the hash of the
\* captured arguments (immutable.py:219-226)
HashFailures == {j \in DOMAIN log : log[j].msg = UnhashableMessage}

\* the number of instances whose construction was begun and has ended
Begun == Len(made) + Cardinality(HashFailures)

\* The protections are on for the class of instance o.
Protected(h, o) == __DEBUG__(h[Id(o)].cls)

Busy == task.step # "none"

\* The caller of deepfreeze(v): immutable.py:216 and 230, no memo given.
CallDeepfreeze(h, v) ==
    /\ heap' = h
    /\ heap0' = h
    /\ pc' = "call"
    /\ arg' = v
    /\ argm' = 1
    /\ memos' = <<EmptyMemo>>
    /\ rets' = {}
    /\ calls' = <<>>

\* immutable.py:193-200: C(*args, **kwargs) evaluates its arguments, packs
\* them into the tuple args and the dict kwargs, and klass.__new__ makes the
\* blank instance.
Construct(c) ==
    /\ pc = "idle"
    /\ ~Busy
    /\ Begun < MaxInsts
    /\ LET p == BuildAll(heap, c.pos)
           k == BuildAll(p.h, [j \in DOMAIN c.kw |-> c.kw[j][2]])
           a == Alloc(k.h, Cell("tuple", "", <<>>, p.rs, FALSE))
           d == Alloc(a.h, Cell("dict", "", [j \in DOMAIN c.kw |-> Str(c.kw[j][1])],
                                k.rs, FALSE))
           o == Alloc(d.h, Cell("obj", c.cls, <<>>, <<>>, FALSE))
       IN  /\ heap' = o.h
           /\ task' = [NoTask EXCEPT !.op = "call", !.step = "init", !.o = o.r,
                          !.cls = c.cls, !.args = a.r, !.kw = d.r, !.full = TRUE]
    /\ UNCHANGED <<impl, registry, heap0, pc, arg, argm, retv, stack, memos, calls, rets,
                   made, pickles, log>>

\* immutable.py:213 (and normal.py:30, 102): self.__init__(*args, **kwargs)
RunInit ==
    /\ pc = "idle"
    /\ task.step = "init"
    /\ heap' = __init__(heap, task.o, task.args, task.kw)
    /\ task' = [task EXCEPT !.step = IF ~task.full THEN "return"
                                      ELSE IF __DEBUG__(task.cls) THEN "capture"
                                      ELSE "raw"]
    /\ UNCHANGED <<impl, registry, heap0, pc, arg, argm, retv, stack, memos, calls, rets,
                   made, pickles, log>>

\* immutable.py:216: the call deepfreeze((args, kwargs))
StartCapture ==
    /\ pc = "idle"
    /\ task.step = "capture"
    /\ LET t == Alloc(heap, Cell("tuple", "", <<>>, <<task.args, task.kw>>, FALSE))
       IN  CallDeepfreeze(t.h, t.r)
    /\ task' = [task EXCEPT !.step = "capturing"]
    /\ UNCHANGED <<impl, registry, retv, stack, made, pickles, log>>

\* immutable.py:216: self.__initial_values__ = <what deepfreeze returned>
StoreInitialValues ==
    /\ pc = "idle"
    /\ task.step = "capturing"
    /\ heap' = SetAttr(heap, task.o, "__initial_values__", calls[1].out)
    /\ task' = [task EXCEPT !.step = "hash"]
    /\ UNCHANGED <<impl, registry, heap0, pc, arg, argm, retv, stack, memos, calls, rets,
                   made, pickles, log>>

\* immutable.py:217-226: inside class MetaImmutable the name self.__hash is
\* compiled to self._MetaImmutable__hash.  Unhashable initial values end the
\* construction with a TypeError; names holds the values the message is
\* formatted with (msg % self.__class__.__name__).
ComputeHash ==
    /\ pc = "idle"
    /\ task.step = "hash"
    /\ LET iv == GetAttr(heap, task.o, "__initial_values__")
       IN  IF Hashable(heap, iv)
           THEN /\ heap' = SetAttr(heap, task.o, "_MetaImmutable__hash", hash(heap, iv))
                /\ task' = [task EXCEPT !.step = "protect"]
                /\ log' = log
           ELSE /\ heap' = heap
                /\ task' = NoTask
                /\ log' = Append(log, [o |-> task.o, op |-> task.op,
                                       result |-> Raise("TypeError"),
                                       msg |-> UnhashableMessage,
                                       names |-> <<Str(heap[Id(task.o)].cls)>>,
                                       before |-> heap[Id(task.o)],
                                       after |-> heap[Id(task.o)],
                                       locked |-> FALSE])
    /\ UNCHANGED <<impl, registry, heap0, pc, arg, argm, retv, stack, memos, calls, rets,
                   made, pickles>>

\* protect_getattr installing nothing.
protect_getattr_nothing(h, self) == h

\* immutable.py:228 and 180-191, protect_getattr: the guard is made a bound
\* method and stored as the attribute __getattribute__ of the instance.
protect_getattr(h, self) ==
    LET m == Alloc(h, Cell("obj", "instancemethod", <<>>, <<>>, FALSE))
    IN  SetAttr(m.h, self, "__getattribute__", m.r)

Protect ==
    /\ pc = "idle"
    /\ task.step = "protect"
    /\ heap' = protect_getattr(heap, task.o)
    /\ task' = [task EXCEPT !.step = "fields", !.i = 1, !.acc = <<>>]
    /\ UNCHANGED <<impl, registry, heap0, pc, arg, argm, retv, stack, memos, calls, rets,
                   made, pickles, log>>

\* immutable.py:230-231: the generator takes the next item of self.__dict__
\* and calls deepfreeze(v).
FreezeField ==
    /\ pc = "idle"
    /\ task.step = "fields"
    /\ task.i <= Len(heap[Id(task.o)].vals)
    /\ CallDeepfreeze(heap, heap[Id(task.o)].vals[task.i])
    /\ task' = [task EXCEPT !.step = "field"]
    /\ UNCHANGED <<impl, registry, retv, stack, made, pickles, log>>

\* ... and yields (k, deepfreeze(v))
FieldDone ==
    /\ pc = "idle"
    /\ task.step = "field"
    /\ task' = [task EXCEPT !.step = "fields", !.i = @ + 1,
                            !.acc = Append(@, calls[1].out)]
    /\ UNCHANGED <<impl, registry, heap, heap0, pc, arg, argm, retv, stack, memos, calls,
                   rets, made, pickles, log>>

\* immutable.py:230: self.__dict__ = dict(...), a plain dict of the frozen
\* values.
AssignDict ==
    /\ pc = "idle"
    /\ task.step = "fields"
    /\ task.i > Len(heap[Id(task.o)].vals)
    /\ heap' = [heap EXCEPT ![Id(task.o)].vals = task.acc]
    /\ task' = [task EXCEPT !.step = "return"]
    /\ UNCHANGED <<impl, registry, heap0, pc, arg, argm, retv, stack, memos, calls, rets,
                   made, pickles, log>>

\* immutable.py:232-233: with __DEBUG__ off the arguments are recorded as
\* they are.
RawInitialValues ==
    /\ pc = "idle"
    /\ task.step = "raw"
    /\ LET t == Alloc(heap, Cell("tuple", "", <<>>, <<task.args, task.kw>>, FALSE))
       IN  heap' = SetAttr(t.h, task.o, "__initial_values__", t.r)
    /\ task' = [task EXCEPT !.step = "return"]
    /\ UNCHANGED <<impl, registry, heap0, pc, arg, argm, retv, stack, memos, calls, rets,
                   made, pickles, log>>

\* immutable.py:201: return self (or __setstate__ returns, and pickle.loads
\* returns the instance).
ReturnInstance ==
    /\ pc = "idle"
    /\ task.step = "return"
    /\ made' = IF task.op = "setstate" THEN made
               ELSE Append(made, [o |-> task.o, cls |-> task.cls, op |-> task.op,
                                  args |-> task.args, kw |-> task.kw,
                                  full |-> task.full, src |-> task.src])
    /\ task' = NoTask
    /\ UNCHANGED <<impl, registry, heap, heap0, pc, arg, argm, retv, stack, memos, calls,
                   rets, pickles, log>>

\* ------------------------------------------------------ pickling, mutation
\* Reading an attribute through immutable.py's Frozen raises: Frozen is an
\* old-style class (immutable.py:149), for which Python 2 never calls
\* __getattribute__ (156-161), and its instances hold nothing but _value.
\* v.name for the other values here is an ordinary lookup.
Readable(h, v) == KindOf(h, v) # "Frozen"

\* i.__getstate__(): Immutable's returns the recorded initial values
\* (immutable.py:243-250); Normal's asks the scipy distribution self.n for
\* its mean and variance (normal.py:26-27), which are the arguments it was
\* made with; NormalInvGammaPrior's returns four of its attributes
\* (normal.py:95-99).  The result is [h, r], or [h, r |-> Raise(..)].
__getstate__(h, self) ==
    LET cls == h[Id(self)].cls
        Tuple(vs) == Alloc(h, Cell("tuple", "", <<>>, vs, FALSE))
        Attr(n) == GetAttr(h, self, n)
        Has(ns) == \A n \in ns : HasAttr(h, self, n)
        Error == [h |-> h, r |-> Raise("AttributeError")]
    IN  CASE cls = "Normal" ->
               IF Has({"n"}) /\ Readable(h, Attr("n"))
               THEN Tuple(h[Id(GetAttr(h, Attr("n"), "args"))].vals)
               ELSE Error
          [] cls = "NormalInvGammaPrior" ->
               IF Has({"mumu", "sigshape", "sigrate", "n0"})
               THEN Tuple(<<Attr("mumu"), Attr("sigshape"), Attr("sigrate"), Attr("n0")>>)
               ELSE Error
          [] OTHER ->
               IF Has({"__initial_values__"})
               THEN [h |-> h, r |-> Attr("__initial_values__")]
               ELSE Error

\* pickle.dumps(i) (test_immutable.py:108): object.__reduce_ex__ calls
\* i.__getstate__() and the state is written out.
Persist(k) ==
    /\ pc = "idle"
    /\ ~Busy
    /\ LET s == __getstate__(heap, made[k].o)
       IN  IF s.r[1] = "raise"
           THEN /\ Len(log) < MaxOps
                /\ log' = Append(log, [o |-> made[k].o, op |-> "__getstate__",
                                       result |-> s.r, msg |-> "",
                                       before |-> heap[Id(made[k].o)],
                                       after |-> heap[Id(made[k].o)],
                                       locked |-> FALSE])
                /\ UNCHANGED <<heap, pickles>>
           ELSE /\ Len(pickles) < MaxPickles
                /\ heap' = s.h
                /\ pickles' = Append(pickles, [cls |-> made[k].cls, state |-> s.r,
                                               of |-> k])
                /\ log' = log
    /\ UNCHANGED <<impl, registry, heap0, pc, arg, argm, retv, stack, memos, calls, rets,
                   task, made>>

\* What pickle.loads builds from a pickled value: new objects with the same
\* contents (an atom is itself).
RECURSIVE Copy(_, _)
RECURSIVE CopyAll(_, _)
Copy(h, v) ==
    IF ~IsRef(v) THEN [h |-> h, r |-> v]
    ELSE LET x == h[Id(v)]
             ks == CopyAll(h, x.keys)
             vs == CopyAll(ks.h, x.vals)
         IN  Alloc(vs.h, [x EXCEPT !.keys = ks.rs, !.vals = vs.rs])
CopyAll(h, vs) ==
    IF vs = <<>> THEN [h |-> h, rs |-> <<>>]
    ELSE LET a == Copy(h, vs[1])
             b == CopyAll(a.h, Tail(vs))
         IN  [h |-> b.h, rs |-> <<a.r>> \o b.rs]

\* i.__setstate__(state) is entered on instance o.  Immutable's unpacks the
\* pair and runs __initialize_instance__ (immutable.py:252-255); Normal's
\* and NormalInvGammaPrior's call self.__init__(*state) and nothing else
\* (normal.py:29-30, 101-102).
SetState(h, op, o, state, src) ==
    LET cls == h[Id(o)].cls
        d == Alloc(h, Cell("dict", "", <<>>, <<>>, FALSE))
    IN  IF OverridesState(cls)
        THEN /\ heap' = d.h
             /\ task' = [NoTask EXCEPT !.op = op, !.step = "init", !.o = o,
                            !.cls = cls, !.args = state, !.kw = d.r, !.src = src]
        ELSE /\ heap' = h
             /\ task' = [NoTask EXCEPT !.op = op, !.step = "init", !.o = o,
                            !.cls = cls, !.args = h[Id(state)].vals[1],
                            !.kw = h[Id(state)].vals[2], !.full = TRUE,
                            !.src = src]

\* pickle.loads(s): copy_reg._reconstructor makes a blank instance with
\* object.__new__(cls), then its __setstate__ gets the unpickled state.
Restore(p) ==
    /\ pc = "idle"
    /\ ~Busy
    /\ Begun < MaxInsts
    /\ LET s == Copy(heap, pickles[p].state)
           o == Alloc(s.h, Cell("obj", pickles[p].cls, <<>>, <<>>, FALSE))
       IN  SetState(o.h, "restore", o.r, s.r, p)
    /\ UNCHANGED <<impl, registry, heap0, pc, arg, argm, retv, stack, memos, calls, rets,
                   made, pickles, log>>

\* A caller invokes i.__setstate__(state) on an instance it already has, with
\* a state some instance of the class gave.
SetStateAgain(k, p) ==
    /\ pc = "idle"
    /\ ~Busy
    /\ Len(log) < MaxOps
    /\ pickles[p].cls = made[k].cls
    /\ SetState(heap, "setstate", made[k].o, pickles[p].state, p)
    /\ log' = Append(log, [o |-> made[k].o, op |-> "__setstate__",
                           result |-> None, msg |-> "",
                           before |-> heap[Id(made[k].o)],
                           after |-> heap[Id(made[k].o)],
                           locked |-> FALSE])
    /\ UNCHANGED <<impl, registry, heap0, pc, arg, argm, retv, stack, memos, calls, rets,
                   made, pickles>>

\* immutable.py:59-70
InPlace ==
    {<<"__imul__", "in-place \"mul\"">>, <<"__idiv__", "in-place \"div\"">>,
     <<"__itruediv__", "in-place \"truediv\"">>,
     <<"__ifloordiv__", "in-place \"floordiv\"">>,
     <<"__imod__", "in-place \"mod\"">>, <<"__ipow__", "in-place \"pow\"">>,
     <<"__ilshift__", "in-place \"lshift\"">>,
     <<"__irshift__", "in-place \"rshift\"">>,
     <<"__iand__", "in-place \"and\"">>, <<"__ixor__", "in-place \"xor\"">>,
     <<"__ior__", "in-place \"or\"">>, <<"__iadd__", "in-place \"add\"">>,
     <<"__iconcat__", "in-place \"concat\"">>,
     <<"__irepeat__", "in-place \"repeat\"">>,
     <<"__isub__", "in-place \"sub\"">>}

mutetargets ==
    {<<"__setattr__", "attribute assignment">>,
     <<"__delattr__", "attribute deletion">>,
     <<"__setitem__", "item assignment">>, <<"__delitem__", "item deletion">>,
     <<"__setslice__", "slice assignment">>,
     <<"__delslice__", "slice deletion">>}

protected_methods ==
    LET items == {<<"__set__", "property assignment">>,
                  <<"__delete__", "property deletion">>} \cup mutetargets \cup InPlace
    IN  [op \in {p[1] : p \in items} |-> (CHOOSE p \in items : p[1] = op)[2]]

\* The classes with the property ab (test_immutable.py:23-32).
HasProperty(cls) == cls \in {"ImmutableTest", "DEBUGTest"}

\* What the statement of test_immutable.py:54-103 that stands for protected
\* method op does to instance o.  Python finds a special method on the type
\* of the instance, never in the instance's __dict__, and an assignment or
\* deletion of an attribute does not call __getattribute__ at all:
\*   o.d = 5 and delattr(o, 'a') run object.__setattr__ and __delattr__;
\*   o.ab = 7 and del o.ab run the property's seta and dela
\*     (test_immutable.py:26-30) where the class has the property, and are a
\*     plain assignment and deletion of the attribute ab where it has not;
\*   o[5] = 6, del o[5], o[5:6] = [1, 2], del o[5:6] and o op= 1 find no
\*     method in the class, and the interpreter raises its own TypeError.
\* The result is the heap after, None or the exception, and its message.
Apply(h, o, op) ==
    LET cls == h[Id(o)].cls
        first == Params(cls)[1]
        Did(h2) == [h |-> h2, result |-> None, msg |-> ""]
        Fail(e, m) == [h |-> h, result |-> Raise(e), msg |-> m]
        Del(n) == IF HasAttr(h, o, n) THEN Did(DelAttr(h, o, n))
                  ELSE Fail("AttributeError", n)
    IN  CASE op = "__setattr__" -> Did(SetAttr(h, o, "d", <<"int", 5>>))
          [] op = "__delattr__" -> Del(first)
          [] op = "__set__" ->
               Did(SetAttr(h, o, IF HasProperty(cls) THEN "a" ELSE "ab", <<"int", 7>>))
          [] op = "__delete__" -> Del(IF HasProperty(cls) THEN "a" ELSE "ab")
          [] op \in {"__setitem__", "__setslice__"} -> Fail("TypeError", "item assignment")
          [] op \in {"__delitem__", "__delslice__"} -> Fail("TypeError", "item deletion")
          [] OTHER -> Fail("TypeError", "unsupported operand type(s)")

\* The instance has been through protect_getattr.
Locked(h, o) == Protected(h, o) /\ HasAttr(h, o, "__getattribute__")

Mutate(k, op) ==
    /\ pc = "idle"
    /\ ~Busy
    /\ Len(log) < MaxOps
    /\ LET o == made[k].o
           a == Apply(heap, o, op)
       IN  /\ heap' = a.h
           /\ log' = Append(log, [o |-> o, op |-> op, result |-> a.result,
                                  msg |-> a.msg, before |-> heap[Id(o)],
                                  after |-> a.h[Id(o)],
                                  locked |-> Locked(heap, o)])
    /\ UNCHANGED <<impl, registry, heap0, pc, arg, argm, retv, stack, memos, calls, rets,
                   task, made, pickles>>

InitImm ==
    /\ impl = "immutable"
    /\ registry = Registered
    /\ heap = <<>>
    /\ heap0 = <<>>
    /\ pc = "idle"
    /\ arg = None
    /\ argm = 0
    /\ retv = None
    /\ stack = <<>>
    /\ memos = <<>>
    /\ calls = <<>>
    /\ rets = {}
    /\ task = NoTask
    /\ made = <<>>
    /\ pickles = <<>>
    /\ log = <<>>

\* Instances are made, pickled, restored and operated on, one statement at
\* a time; the deepfreeze calls of the construction run the walker above.
NextImm ==
    \/ \E c \in CallExprs : Construct(c)
    \/ RunInit
    \/ StartCapture
    \/ StoreInitialValues
    \/ ComputeHash
    \/ Protect
    \/ FreezeField
    \/ FieldDone
    \/ AssignDict
    \/ RawInitialValues
    \/ ReturnInstance
    \/ \E k \in DOMAIN made : Persist(k)
    \/ \E p \in DOMAIN pickles : Restore(p)
    \/ \E k \in DOMAIN made, p \in DOMAIN pickles : SetStateAgain(k, p)
    \/ \E k \in DOMAIN made, op \in DOMAIN protected_methods : Mutate(k, op)
    \/ ReturnFrozenType
    \/ EnterLoop
    \/ NextElem
    \/ Deliver
    \/ FinishContainer
    \/ FinishObject
    \/ ReturnTop

SpecImm == InitImm /\ [][NextImm]_vars

\* ============================================================= the wrapper
\* Attribute lookups and calls made through wrappers.
MaxAccesses == 2

\* the opaque wrappers in the heap, and the value w wraps
Wrappers == {Ref(i) : i \in {n \in DOMAIN heap : heap[n].kind = "Frozen"}}
Wrapped(w) == heap[Id(w)].vals[1]

\* The methods the class of an object defines: object gives every instance
\* __setattr__ and __delattr__, an rv_frozen has rvs.
MethodNames(cls) ==
    {"__setattr__", "__delattr__"} \cup (IF cls = "rv_frozen" THEN {"rvs"} ELSE {})

\* getattr(v, name) on the wrapped object (freeze.py:92): the entry of
\* v.__dict__, or a new bound method for a method of the class.
LookUp(h, v, name) ==
    IF HasAttr(h, v, name) THEN [h |-> h, r |-> GetAttr(h, v, name)]
    ELSE IF KindOf(h, v) = "obj" /\ name \in MethodNames(h[Id(v)].cls)
         THEN Alloc(h, Cell("obj", "instancemethod",
                            <<Str("im_self"), Str("__name__")>>, <<v, Str(name)>>, FALSE))
         ELSE [h |-> h, r |-> Raise("AttributeError")]

\* _Frozen.__getattribute__ with the exclusion registry consulted first.
Frozen__getattribute___registry_first(h, self, name) ==
    LET v == h[Id(self)].vals[1]
        rv == LookUp(h, v, name)
    IN  IF name = "_value" THEN [h |-> h, r |-> v]
        ELSE IF rv.r[1] # "raise" /\ Str(name) \in get_mutable_attributes(h, v) THEN rv
        ELSE IF name \in DOMAIN protected_methods
             THEN [h |-> h, r |-> Raise("NotImplementedError")]
        ELSE IF rv.r[1] = "raise" THEN rv
        ELSE _freeze(rv.h, rv.r)

\* _Frozen.__getattribute__ without the exclusion registry.
Frozen__getattribute___no_registry(h, self, name) ==
    LET v == h[Id(self)].vals[1]
        rv == LookUp(h, v, name)
    IN  IF name = "_value" THEN [h |-> h, r |-> v]
        ELSE IF name \in DOMAIN protected_methods
             THEN [h |-> h, r |-> Raise("NotImplementedError")]
        ELSE IF rv.r[1] = "raise" THEN rv
        ELSE _freeze(rv.h, rv.r)

\* freeze.py:84-95, _Frozen.__getattribute__(self, name); the result is the
\* heap after the lookup and the value returned or the exception raised.
Frozen__getattribute__(h, self, name) ==
    LET v == h[Id(self)].vals[1]
        rv == LookUp(h, v, name)
    IN  IF name = "_value" THEN [h |-> h, r |-> v]
        ELSE IF name \in DOMAIN protected_methods
             THEN [h |-> h, r |-> Raise("NotImplementedError")]
        ELSE IF rv.r[1] = "raise" THEN rv
        ELSE IF Str(name) \in get_mutable_attributes(h, v) THEN rv
        ELSE _freeze(rv.h, rv.r)

\* callable(v): of the values here the bound methods are
Callable(h, v) == KindOf(h, v) = "obj" /\ h[Id(v)].cls = "instancemethod"

\* v(*args) for the bound method v: the methods called here return a new
\* list that holds a new list of their arguments.
Invoke(h, v, args) ==
    LET inner == Alloc(h, Cell("list", "", <<>>, args, FALSE))
    IN  Alloc(inner.h, Cell("list", "", <<>>, <<inner.r>>, FALSE))

\* _Frozen.__call__ handing back what the callable returned, as it is.
Frozen__call___raw(h, self, args) ==
    LET v == h[Id(self)].vals[1]
    IN  IF ~Callable(h, v) THEN [h |-> h, r |-> Raise("TypeError")]
        ELSE Invoke(h, v, args)

\* freeze.py:103-104, _Frozen.__call__(self, *args)
Frozen__call__(h, self, args) ==
    LET v == h[Id(self)].vals[1]
    IN  IF ~Callable(h, v) THEN [h |-> h, r |-> Raise("TypeError")]
        ELSE LET c == Invoke(h, v, args)
             IN  _freeze(c.h, c.r)

\* The names looked up through a wrapper.
AccessNames == {"kwds", "args", "rvs", "__setattr__", "__iadd__", "_value"}

\* The contents of the registry: what the module registers, and that with
\* one more name registered for a class.
Registries ==
    {Registered}
    \cup {[c \in {"rv_frozen", cls} |->
             (IF c = "rv_frozen" THEN {kwds} ELSE {})
             \cup (IF c = cls THEN {Str(n)} ELSE {})] :
            cls \in {"rv_frozen", "object"}, n \in AccessNames \ {"_value", "kwds"}}

\* The graphs behind a wrapper: a list (cell 1), a container or buffer x
\* (cell 2) that holds the list or a number, an object (cell 3) whose
\* attributes kwds and args are among these, and the wrapper _freeze makes
\* for the object (cell 4).
WrapperHeaps ==
    {_freeze(<<Cell("list", "", <<>>, <<Int1>>, FALSE),
               x,
               Cell("obj", cls, <<kwds, Str("args")>>, <<k, a>>, FALSE)>>, Ref(3)).h :
        x \in {Node("list", <<Ref(1)>>), Node("tuple", <<Ref(1)>>),
               Node("dict", <<Ref(1)>>), Node("ndarray", <<Int1>>)},
        cls \in {"rv_frozen", "object"},
        k \in {Int1, Ref(1), Ref(2)},
        a \in {Ref(1), Ref(2)}}

InitAttr ==
    /\ impl = "freeze"
    /\ registry \in Registries
    /\ heap \in WrapperHeaps
    /\ heap0 = <<>>
    /\ pc = "idle"
    /\ arg = None
    /\ argm = 0
    /\ retv = None
    /\ stack = <<>>
    /\ memos = <<>>
    /\ calls = <<>>
    /\ rets = {}
    /\ task = NoTask
    /\ made = <<>>
    /\ pickles = <<>>
    /\ log = <<>>

\* w.name for a wrapper w
GetAttribute(w, name) ==
    /\ Len(log) < MaxAccesses
    /\ LET r == Frozen__getattribute__(heap, w, name)
       IN  /\ heap' = r.h
           /\ log' = Append(log, [o |-> w, op |-> "__getattribute__", name |-> name,
                                  args |-> <<>>, result |-> r.r, msg |-> "",
                                  before |-> heap])
    /\ UNCHANGED <<impl, registry, heap0, pc, arg, argm, retv, stack, memos, calls, rets,
                   task, made, pickles>>

\* w(a) for a wrapper w
CallWrapper(w, a) ==
    /\ Len(log) < MaxAccesses
    /\ LET r == Frozen__call__(heap, w, <<a>>)
       IN  /\ heap' = r.h
           /\ log' = Append(log, [o |-> w, op |-> "__call__", name |-> "",
                                  args |-> <<a>>, result |-> r.r, msg |-> "",
                                  before |-> heap])
    /\ UNCHANGED <<impl, registry, heap0, pc, arg, argm, retv, stack, memos, calls, rets,
                   task, made, pickles>>

NextAttr ==
    \/ \E w \in Wrappers : \E name \in AccessNames : GetAttribute(w, name)
    \/ \E w \in Wrappers : \E a \in {Int1, Ref(1)} : CallWrapper(w, a)

SpecAttr == InitAttr /\ [][NextAttr]_vars

\* ============================================================== properties
Last == calls[Len(calls)]
\* A top-level call has just returned (or raised) and heap0 is the heap it
\* was made on.
Returned == pc = "idle" /\ calls # <<>>

Reach(h, v) == IF IsRef(v) THEN ReachVia(h, {Id(v)}, AllKinds) ELSE {}

\* The graph under v contains a reference cycle.
Cyclic(h, v) == \E n \in Reach(h, v) : n \in ReachVia(h, Kids(h, n), AllKinds)

\* No exclusion-registry entry applies to an object of the graph under v.
NoExclusion(h, v) ==
    \A n \in Reach(h, v) : Range(h[n].keys) \cap get_mutable_attributes(h, Ref(n)) = {}

\* Nothing mutable is reachable from v by element, key/value or attribute
\* access.  top: v is seen through _freeze(v), as an attribute read through
\* a wrapper is (freeze.py:92-95), so its own top level is immutable and a
\* plain object is inside a new wrapper.
RECURSIVE Imm(_, _, _, _)
Imm(h, v, top, fuel) ==
    IF ~IsRef(v) \/ fuel = 0 THEN TRUE
    ELSE LET x == h[Id(v)]
         IN  CASE x.kind \in {"tuple", "frozenset", "frozendict"}
                    \/ (top /\ x.kind \in {"list", "set", "dict"}) ->
                    /\ \A i \in DOMAIN x.vals : Imm(h, x.vals[i], FALSE, fuel - 1)
                    /\ \A i \in DOMAIN x.keys : Imm(h, x.keys[i], FALSE, fuel - 1)
               [] x.kind = "ndarray" -> top \/ ~x.w
               [] x.kind = "Frozen" -> Imm(h, x.vals[1], TRUE, fuel - 1)
               [] x.kind = "obj" ->
                    /\ top
                    /\ \A i \in DOMAIN x.vals :
                          Imm(h, x.vals[i], x.keys[i] \notin get_mutable_attributes(h, v),
                              fuel - 1)
               [] OTHER -> FALSE

DeepImmutable(h, v) == Imm(h, v, FALSE, Len(h) + 1)

\* Every value of a frozen type in the graph under v, which deepfreeze hands
\* back as it is, is deeply immutable already.
FrozenTypesClean(h, v) ==
    \A n \in Reach(h, v) :
        h[n].kind \in {"frozenset", "Frozen"} => DeepImmutable(h, Ref(n))

C1_Pre ==
    /\ Returned
    /\ impl = "freeze"
    /\ Last.err = ""
    /\ ~Cyclic(heap0, Last.in)
    /\ NoExclusion(heap0, Last.in)

\* C1 as stated: for every finite acyclic graph G to which no exclusion
\* entry applies, nothing mutable is reachable from deepfreeze(G).
C1_DeepImmutableAsStated == C1_Pre => DeepImmutable(heap, Last.out)

\* C1 amended: for every finite acyclic graph G to which no exclusion entry
\* applies and in which every frozenset and every wrapper is already deeply
\* immutable, nothing mutable is reachable from deepfreeze(G) by element,
\* key/value or attribute access.
C1_DeepImmutable ==
    (C1_Pre /\ FrozenTypesClean(heap0, Last.in)) => DeepImmutable(heap, Last.out)

\* deepfreeze has returned for a list that holds a plain object with a list
\* field.
C1_Witness ==
    /\ C1_Pre
    /\ FrozenTypesClean(heap0, Last.in)
    /\ Last.in = Root
    /\ heap0[1].kind = "list"
    /\ \E i \in DOMAIN heap0[1].vals :
          /\ IsRef(heap0[1].vals[i])
          /\ heap0[Id(heap0[1].vals[i])].kind = "obj"
          /\ heap0[Id(heap0[1].vals[i])].vals # <<>>
    /\ KindOf(heap, Last.out) = "tuple"

\* The composite values of the source graph: lists, dicts, sets and objects.
Composite(h, v) == IsRef(v) /\ h[Id(v)].kind \in {"list", "dict", "set", "obj"}

\* C2 as stated: within one top-level deepfreeze call every reference to the
\* same composite of the graph resolves to the identical frozen object (the
\* composite is frozen once).
C2_SharingPreserved ==
    \A p, q \in rets :
        (p[1] = q[1] /\ Composite(heap0, p[1])) => p[2] = q[2]

\* C3 as stated: a reference cycle is detected instead of being followed.
\* deepfreeze is never entered again for a container or object it is still
\* inside, and a call that fails on a cyclic graph fails with the cycle
\* error.
C3_CycleDetected ==
    /\ \A i, j \in DOMAIN stack : i < j => stack[i].o # stack[j].o
    /\ (Returned /\ Cyclic(heap0, Last.in) /\ Last.err # "") =>
           Last.err = "CyclicGraphError"

\* No wrapper wraps a wrapper.
NoDoubleWrap ==
    \A n \in DOMAIN heap :
        heap[n].kind = "Frozen" => KindOf(heap, heap[n].vals[1]) # "Frozen"

Constructed == {k \in DOMAIN made : made[k].op = "call"}

\* No operation was attempted on instance o after it was handed out.
Pristine(o) == \A j \in DOMAIN log : log[j].o # o

\* the entries of log that are attempts of a protected operation on an
\* instance that had been through protect_getattr
Attempts == {j \in DOMAIN log : log[j].op \in DOMAIN protected_methods /\ log[j].locked}

\* C5.  Mutation rejection: every protected operation attempted on an
\* instance whose construction completed with the protections on raises a
\* TypeError whose message is "... does not support <description of the
\* operation in protected_methods>", and leaves every attribute of the
\* instance as it was.
C5_MutationRejected ==
    \A j \in Attempts :
        /\ log[j].result = Raise("TypeError")
        /\ log[j].msg = protected_methods[log[j].op]
        /\ log[j].after = log[j].before

\* C6.  Lifecycle: once C(...) has returned an instance with the protections
\* on, no step changes its attributes or its captured initial values
\* (calling __setstate__ on it again included), and an instance handed out
\* later is never the same object.
C6_FrozenIsTerminal ==
    [][\A k \in Constructed :
          Protected(heap, made[k].o) =>
              /\ heap'[Id(made[k].o)] = heap[Id(made[k].o)]
              /\ \A n \in (DOMAIN made') \ (DOMAIN made) : made'[n].o # made[k].o]_vars

\* the instance whose pickle instance n was restored from
SourceOf(n) == made[pickles[made[n].src].of].o

Restored == {n \in DOMAIN made : made[n].op = "restore"}

\* C7.  Round trip: pickling a constructed instance that nothing was done to
\* succeeds, and (for a class with the protections on) the instance restored
\* from the pickle is equal to it and has the same hash.
C7_RoundTrip ==
    /\ \A j \in DOMAIN log :
          log[j].op = "__getstate__" /\ (\A m \in 1..(j - 1) : log[m].o # log[j].o)
              => log[j].result[1] # "raise"
    /\ \A n \in Restored :
          Protected(heap, made[n].o) /\ Pristine(SourceOf(n)) /\ Pristine(made[n].o) =>
              /\ __eq__(heap, made[n].o, SourceOf(n)) = True
              /\ __hash__(heap, made[n].o)[1] # "raise"
              /\ __hash__(heap, made[n].o) = __hash__(heap, SourceOf(n))

\* the captured initial values of instance o, as a value
Captured(h, o) == Abs(h, GetAttr(h, o, "__initial_values__"), FALSE, Len(h) + 1)

\* the arguments instance number k was constructed with, after freezing, as
\* a value
FrozenArgs(k) ==
    <<Abs(heap, made[k].args, TRUE, Len(heap) + 1),
      Abs(heap, made[k].kw, TRUE, Len(heap) + 1)>>

\* the values without captured initial values an instance is compared with
Strangers ==
    {Int1, None, UnusedObject}
    \cup {made[k].args : k \in DOMAIN made}
    \cup {made[k].kw : k \in DOMAIN made}
    \cup {made[k].o : k \in {n \in DOMAIN made : ~HasAttr(heap, made[n].o, "__initial_values__")}}

\* C8.  Equality: two instances that went through the construction are equal
\* exactly when their captured initial values are the same value (also
\* across classes); for two instances made by C(...) with the protections
\* on that is exactly when their constructor arguments freeze to the same
\* value; and an instance compared with a value that has no captured initial
\* values is not equal to it, without an exception.
C8_Equality ==
    /\ \A k1, k2 \in {k \in DOMAIN made : made[k].full} :
          LET a == made[k1].o
              b == made[k2].o
          IN  /\ __eq__(heap, a, b) \in {True, False}
              /\ (__eq__(heap, a, b) = True) <=> (Captured(heap, a) = Captured(heap, b))
              /\ /\ {k1, k2} \subseteq Constructed
                 /\ Protected(heap, a) /\ Protected(heap, b)
                 /\ Pristine(a) /\ Pristine(b)
                 => ((__eq__(heap, a, b) = True) <=> (FrozenArgs(k1) = FrozenArgs(k2)))
    /\ \A k \in {n \in DOMAIN made : made[n].full} :
          \A v \in Strangers : __eq__(heap, made[k].o, v) = False

\* Two instances made by separate constructor calls, one with a list and one
\* with a tuple, are equal; an instance of one class equals an instance of
\* another; and two instances are unequal.
C8_Witness ==
    /\ \E k1, k2 \in Constructed :
          /\ k1 # k2
          /\ made[k1].full /\ made[k2].full
          /\ KindOf(heap, heap[Id(made[k1].args)].vals[1]) = "list"
          /\ KindOf(heap, heap[Id(made[k2].args)].vals[1]) = "tuple"
          /\ __eq__(heap, made[k1].o, made[k2].o) = True
          /\ __eq__(heap, made[k1].o, made[k1].args) = False

\* C9.  Hash contract: hash(I) of an instance made with the protections on
\* returns the hash of its captured initial values that the construction
\* computed, and two instances of one class made from arguments that freeze
\* to the same value have the same hash.
C9_HashContract ==
    /\ \A k \in Constructed :
          Protected(heap, made[k].o) /\ Pristine(made[k].o) =>
              __hash__(heap, made[k].o)
                  = hash(heap, GetAttr(heap, made[k].o, "__initial_values__"))
    /\ \A k1, k2 \in Constructed :
          /\ made[k1].cls = made[k2].cls
          /\ Protected(heap, made[k1].o)
          /\ Pristine(made[k1].o) /\ Pristine(made[k2].o)
          /\ FrozenArgs(k1) = FrozenArgs(k2)
          => /\ __hash__(heap, made[k1].o)[1] # "raise"
             /\ __hash__(heap, made[k1].o) = __hash__(heap, made[k2].o)

\* Instance o went through the whole of __initialize_instance__.
FullyInitialized(h, o) ==
    /\ HasAttr(h, o, "__initial_values__")
    /\ Protected(h, o) => HasAttr(h, o, "_MetaImmutable__hash") /\ Locked(h, o)

\* C10.  Serialization format: what pickle.dumps writes for an instance is
\* its captured pair of initial values and nothing else, and an instance that
\* pickle.loads returns went through the whole construction (initial values
\* captured, hash computed, fields frozen, guard installed).
C10_SerializationFormat ==
    /\ \A p \in DOMAIN pickles :
          Pristine(made[pickles[p].of].o) =>
              /\ HasAttr(heap, made[pickles[p].of].o, "__initial_values__")
              /\ pickles[p].state = GetAttr(heap, made[pickles[p].of].o, "__initial_values__")
    /\ \A n \in Restored : made[n].full /\ FullyInitialized(heap, made[n].o)

\* ------------------------------------------- properties of the constructor
\* The arguments at fault in the construction of log entry j: <<p, v>> for an
\* unhashable positional argument v at index p, <<n, v>> for an unhashable
\* argument v passed by the keyword n.
Faulty(j) ==
    LET x == log[j].before
        iv == x.vals[CHOOSE i \in DOMAIN x.keys : x.keys[i] = Str("__initial_values__")]
        pos == heap[Id(heap[Id(iv)].vals[1])].vals
        kw == heap[Id(heap[Id(iv)].vals[2])]
    IN  {<<<<"int", i - 1>>, pos[i]>> : i \in {n \in DOMAIN pos : ~Hashable(heap, pos[n])}}
        \cup {<<kw.keys[i], kw.vals[i]>> :
                 i \in {n \in DOMAIN kw.keys : ~Hashable(heap, kw.vals[n])}}

C12_ContainerArgumentsHashable ==
    /\ \A j \in HashFailures : \A f \in Faulty(j) : ~IsRef(f[2])
    /\ \A k \in Constructed :
          /\ Protected(heap, made[k].o)
          /\ \E v \in Range(heap[Id(made[k].args)].vals) :
                KindOf(heap, v) \in {"list", "dict"}
          => __hash__(heap, made[k].o)[1] = "hash"

\* ---------------------------------------------- properties of the wrapper
\* C13 as stated.  Equality and hashing of a wrapper delegate to the wrapped
\* value: for every wrapper w around v, hash(w) = hash(v), w == w2 for every
\* wrapper w2 whose wrapped value equals v, and w == v for the unwrapped v
\* itself.
C13_WrapperEqualsUnwrapped ==
    \A w \in Wrappers :
        /\ hash(heap, w) = hash(heap, Wrapped(w))
        /\ \A w2 \in Wrappers :
              Eq(heap, Wrapped(w2), Wrapped(w)) => Frozen__eq__(heap, w, w2) = True
        /\ Frozen__eq__(heap, w, Wrapped(w)) = True

\* C13.  For every wrapper w around v: hash(w) = hash(v) (and hash(w) raises
\* when hash(v) does); w == w2 exactly when w2 is a wrapper whose wrapped
\* value equals v; and w == x is false for every x that is not a wrapper,
\* the unwrapped v itself included.
C13_WrapperDelegates ==
    \A w \in Wrappers :
        /\ hash(heap, w) = hash(heap, Wrapped(w))
        /\ \A w2 \in Wrappers :
              Eq(heap, Wrapped(w2), Wrapped(w)) <=> Frozen__eq__(heap, w, w2) = True
        /\ \A i \in DOMAIN heap :
              heap[i].kind # "Frozen" => Frozen__eq__(heap, w, Ref(i)) = False
        /\ Frozen__eq__(heap, w, Wrapped(w)) = False
        /\ Eq(heap, w, Wrapped(w)) = FALSE

\* two wrappers around one object, made by two calls
C13_Witness ==
    \E w \in Wrappers : \E w2 \in Wrappers :
        /\ w # w2
        /\ Wrapped(w) = Wrapped(w2)
        /\ KindOf(heap, Wrapped(w)) = "obj"
        /\ pc = "idle"

\* the lookups of a name through a wrapper that are recorded in log
Lookups == {j \in DOMAIN log : log[j].op = "__getattribute__"}

\* the names registered, when lookup j was made, for the class of the object
\* behind its wrapper
RegisteredFor(j) == get_mutable_attributes(log[j].before, log[j].before[Id(log[j].o)].vals[1])

\* C14.  Looking up a name of the protected-method table on a wrapper always
\* raises and never returns the method of the underlying object, whatever
\* the exclusion registry contains, also when the name is registered as a
\* mutable attribute for the class of the wrapped object.
C14_ProtectedAlwaysRaises ==
    \A j \in Lookups :
        log[j].name \in DOMAIN protected_methods =>
            log[j].result = Raise("NotImplementedError")

\* a protected name that the underlying object has, and that is registered
\* for its class, was looked up
C14_Witness ==
    \E j \in Lookups :
        /\ log[j].name = "__setattr__"
        /\ Str("__setattr__") \in RegisteredFor(j)
        /\ LookUp(log[j].before, log[j].before[Id(log[j].o)].vals[1], "__setattr__").r[1] = "ref"

\* the kinds of value that can be changed in place
MutableKinds == {"list", "dict", "set", "obj"}
IsMutable(h, v) ==
    IsRef(v) /\ (h[Id(v)].kind \in MutableKinds \/ (h[Id(v)].kind = "ndarray" /\ h[Id(v)].w))

\* r is a frozen form of raw: raw itself when raw is atomic, a tuple or a
\* wrapper; else an immutable container or a read-only buffer with the
\* elements, or the items, of raw; else a wrapper around raw.
FrozenFormOf(h, r, raw) ==
    /\ ~IsMutable(h, r)
    /\ IF ~IsRef(raw) \/ KindOf(h, raw) \in {"tuple", "frozenset", "Frozen"} THEN r = raw
       ELSE /\ r # raw
            /\ CASE KindOf(h, raw) = "list" ->
                      KindOf(h, r) = "tuple" /\ h[Id(r)].vals = h[Id(raw)].vals
                 [] KindOf(h, raw) \in MapKinds ->
                      /\ KindOf(h, r) = "frozendict"
                      /\ h[Id(r)].keys = h[Id(raw)].keys
                      /\ h[Id(r)].vals = h[Id(raw)].vals
                 [] KindOf(h, raw) = "set" ->
                      KindOf(h, r) = "frozenset" /\ h[Id(r)].vals = h[Id(raw)].vals
                 [] KindOf(h, raw) = "ndarray" ->
                      KindOf(h, r) = "ndarray" /\ h[Id(r)].vals = h[Id(raw)].vals
                 [] OTHER -> KindOf(h, r) = "Frozen" /\ h[Id(r)].vals = <<raw>>

\* the lookups of a name that is not protected and that the object behind
\* the wrapper has
PlainLookups ==
    {j \in Lookups :
        /\ log[j].name \notin DOMAIN protected_methods \cup {"_value"}
        /\ LookUp(log[j].before, log[j].before[Id(log[j].o)].vals[1], log[j].name).r[1] = "ref"}

\* what getattr gave lookup j on the object behind the wrapper
RawOf(j) == LookUp(log[j].before, log[j].before[Id(log[j].o)].vals[1], log[j].name).r

Calls == {j \in DOMAIN log : log[j].op = "__call__" /\ log[j].result[1] = "ref"}

\* what the callable behind the wrapper of call j returned
ReturnedBy(j) == Invoke(log[j].before, log[j].before[Id(log[j].o)].vals[1], log[j].args).r

\* C16 as stated.  Calling a wrapper around a callable returns a result with
\* the protection of a deep-frozen value: the result and everything
\* reachable from it through containers (the inner lists of a returned list
\* of lists) is atomic, an immutable container or a wrapper.
C16_CallResultDeepFrozen ==
    \A j \in Calls :
        \A n \in ReachVia(heap, {Id(log[j].result)}, {"tuple", "frozendict", "frozenset"}) :
            ~IsMutable(heap, Ref(n))

\* C16.  Calling a wrapper around a callable invokes the callable with the
\* same arguments and returns its result frozen at the top level only: a
\* returned list comes back as a new tuple of the same elements, and the
\* elements are handed back as they are; the inner lists of a returned list
\* of lists are still the mutable lists the callable made.
C16_CallResultTopLevelFrozen ==
    \A j \in Calls :
        /\ FrozenFormOf(heap, log[j].result, ReturnedBy(j))
        /\ \A e \in Range(heap[Id(log[j].result)].vals) :
              /\ KindOf(heap, e) = "list"
              /\ heap[Id(e)].vals = log[j].args
              /\ e \in Range(heap[Id(ReturnedBy(j))].vals)

\* a bound method was called through its wrapper with the list of cell 1 as
\* the argument
C16_Witness ==
    \E j \in Calls :
        /\ log[j].args = <<Ref(1)>>
        /\ KindOf(heap, log[j].result) = "tuple"
        /\ Len(heap[Id(log[j].result)].vals) = 1

\* ------------------------------------------- properties of the containers
\* the calls deepfreeze(o) of the current top-level call that returned, for
\* an o of one of the kinds ks
ReturnedFor(ks) == {p \in rets : IsRef(p[1]) /\ heap[Id(p[1])].kind \in ks}

\* C17.  Freezing a list or a tuple yields a tuple of the same length whose
\* i-th element is what deepfreeze returned for the i-th element of the
\* source: order and duplicates are kept.
C17_SequenceFrozen ==
    \A p \in ReturnedFor(SeqKinds) :
        LET o == heap[Id(p[1])]
            r == heap[Id(p[2])]
        IN  /\ r.kind = "tuple"
            /\ Len(r.vals) = Len(o.vals)
            /\ \A i \in DOMAIN o.vals : <<o.vals[i], r.vals[i]>> \in rets

\* a list that holds the same list twice came back as a tuple of two tuples
C17_Witness ==
    \E p \in ReturnedFor({"list"}) :
        /\ Len(heap[Id(p[1])].vals) = 2
        /\ heap[Id(p[1])].vals[1] = heap[Id(p[1])].vals[2]
        /\ KindOf(heap, heap[Id(p[1])].vals[1]) = "list"
        /\ Len(heap[Id(p[2])].vals) = 2
        /\ \A e \in Range(heap[Id(p[2])].vals) : KindOf(heap, e) = "tuple"

\* C18.  Freezing a mapping yields a frozendict with exactly one entry per
\* source entry: distinct source keys never collapse into one frozen key, and
\* each frozen key maps to what deepfreeze returned for the value its source
\* key mapped to.
C18_MappingFrozen ==
    \A p \in ReturnedFor(MapKinds) :
        LET o == heap[Id(p[1])]
            r == heap[Id(p[2])]
        IN  /\ r.kind = "frozendict"
            /\ Len(r.keys) = Len(o.keys)
            /\ \A i \in DOMAIN o.keys :
                  \E j \in DOMAIN r.keys :
                      /\ <<o.keys[i], r.keys[j]>> \in rets
                      /\ <<o.vals[i], r.vals[j]>> \in rets

\* C19.  Freezing an ndarray, passed directly or reached inside a container,
\* returns a read-only copy of the whole buffer with the same contents: the
\* result is a buffer and not a wrapper, and the original is left as it was,
\* still writable.
C19_BufferCopied ==
    \A p \in ReturnedFor({"ndarray"}) :
        LET o == heap[Id(p[1])]
            r == heap[Id(p[2])]
        IN  /\ r.kind = "ndarray"
            /\ p[2] # p[1]
            /\ ~r.w
            /\ r.vals = o.vals
            /\ Id(p[1]) \in DOMAIN heap0 => o = heap0[Id(p[1])]

\* ------------------------------------------- properties of the DEBUG flag
\* the instances C(...) returned for the class whose __DEBUG__ is False
\* (test_immutable.py:121-123)
Unguarded == {k \in Constructed : made[k].cls = "DEBUGTest"}

\* C20.  With __DEBUG__ false the construction runs the initializer, records
\* (args, kwargs) as the initial values without freezing them, and applies
\* no protection: no hash is stored, no guard installed, the attributes are
\* as __init__ left them, and an attribute assignment on the returned
\* instance succeeds and changes the attribute.
C20_DebugOffUnprotected ==
    /\ \A k \in Unguarded :
          LET o == made[k].o
          IN  Pristine(o) =>
                  /\ heap[Id(o)].keys =
                        <<Str("a"), Str("b"), Str("c"), Str("k"), Str("__initial_values__")>>
                  /\ SubSeq(heap[Id(o)].vals, 1, 4) = Bind(heap, "DEBUGTest", made[k].args, made[k].kw)
                  /\ heap[Id(GetAttr(heap, o, "__initial_values__"))]
                        = Cell("tuple", "", <<>>, <<made[k].args, made[k].kw>>, FALSE)
                  /\ KindOf(heap, made[k].kw) = "dict"
    /\ \A j \in DOMAIN log :
          (log[j].op = "__setattr__" /\ \E k \in Unguarded : made[k].o = log[j].o) =>
              /\ log[j].result = None
              /\ \E i \in DOMAIN log[j].after.keys :
                    /\ log[j].after.keys[i] = Str("d")
                    /\ log[j].after.vals[i] = <<"int", 5>>
              /\ ~log[j].locked

\* DEBUGTest([1], 2, 3) was constructed, its list argument is recorded as the
\* list it is, and an attribute of the instance was assigned
C20_Witness ==
    \E k \in Unguarded :
        /\ KindOf(heap, heap[Id(made[k].args)].vals[1]) = "list"
        /\ \E j \in DOMAIN log :
              /\ log[j].o = made[k].o
              /\ log[j].op = "__setattr__"
              /\ log[j].result = None

\* ------------------------------------------ properties of attribute reads
\* The dict that is o.__dict__: a plain dict, the one object.__setattr__
\* stores into (immutable.py:229-230, "Cannot freeze __dict__").
__dict__(o) == <<"dict", Id(o)>>

\* i.name for an instance i: the interpreter calls type(i).__getattribute__,
\* which for the classes here is object.__getattribute__ (the guard that
\* immutable.py:191 stores in the instance is not consulted, and would have
\* returned freeze(...) of the same value, line 187).
object__getattribute__(h, self, name) ==
    IF name = "__dict__" THEN __dict__(self)
    ELSE IF HasAttr(h, self, name) THEN GetAttr(h, self, name)
    ELSE Raise("AttributeError")

\* the kinds of value that are in frozen form: atoms, immutable containers
\* and wrappers
FrozenKinds ==
    {"int", "str", "none", "hash", "slice", "tuple", "frozendict", "frozenset", "Frozen"}

\* the names in the __dict__ of instance o
AttrNames(h, o) == {h[Id(o)].keys[i][2] : i \in DOMAIN h[Id(o)].keys}

\* C21.  After a construction with the protections on, every value read
\* from the instance through attribute access is in frozen form: __dict__ is
\* read as an immutable mapping (a frozendict, test_immutable.py:110), and
\* every field as an atom, an immutable container or a wrapper.
C21_ReadsFrozen ==
    \A k \in Constructed :
        Protected(heap, made[k].o) /\ Pristine(made[k].o) =>
            /\ KindOf(heap, object__getattribute__(heap, made[k].o, "__dict__")) = "frozendict"
            /\ \A n \in AttrNames(heap, made[k].o) :
                  KindOf(heap, object__getattribute__(heap, made[k].o, n)) \in FrozenKinds

\* ================================================================== safezip
\* tests/safezip.py.  The arguments of a call are held in arg, what the call
\* returned or raised in retv; pc is "call" before the call and "ret" after.
\* Largest number of arguments of safezip and largest length of one.
MaxArgs == 3
MaxLen == 3

\* The state of the walker and of the instances, which these calls do not
\* touch.
Untouched ==
    /\ impl = "freeze"
    /\ registry = Registered
    /\ heap = <<>>
    /\ heap0 = <<>>
    /\ argm = 0
    /\ stack = <<>>
    /\ memos = <<>>
    /\ calls = <<>>
    /\ rets = {}
    /\ task = NoTask
    /\ made = <<>>
    /\ pickles = <<>>
    /\ log = <<>>

\* iter(s): an iterator over the sequence s that has handed out i items
iter(s) == [s |-> s, i |-> 0]

\* One round of the built-in zip: it takes the next item of every iterator
\* in turn, from iterator j on, and stops at the first that is exhausted;
\* the items taken from the earlier iterators in that round are dropped.
RECURSIVE ZipRound(_, _, _)
ZipRound(its, j, row) ==
    IF j > Len(its) THEN [its |-> its, row |-> row, done |-> FALSE]
    ELSE IF its[j].i >= Len(its[j].s) THEN [its |-> its, row |-> row, done |-> TRUE]
    ELSE ZipRound([its EXCEPT ![j].i = @ + 1], j + 1, Append(row, its[j].s[its[j].i + 1]))

RECURSIVE ZipRounds(_, _)
ZipRounds(its, rv) ==
    LET r == ZipRound(its, 1, <<>>)
    IN  IF r.done THEN [its |-> r.its, rv |-> rv]
        ELSE ZipRounds(r.its, Append(rv, r.row))

\* zip(*iterators) of Python 2: the list of tuples, and the iterators as the
\* call leaves them; zip() with no argument is [].
zip(its) == IF its = <<>> THEN [its |-> <<>>, rv |-> <<>>] ELSE ZipRounds(its, <<>>)

\* safezip.py:1-12.  The result is the list rv, or the ValueError raised for
\* the first iterator that still has an item after zip returned (lidx is
\* its index).
safezip(tozip) ==
    LET iterators == [j \in DOMAIN tozip |-> iter(tozip[j])]
        z == zip(iterators)
        extra == {j \in DOMAIN z.its : z.its[j].i < Len(z.its[j].s)}
    IN  IF extra = {} THEN [err |-> "", rv |-> z.rv, lidx |-> 0]
        ELSE [err |-> "ValueError", rv |-> <<>>,
              lidx |-> (CHOOSE j \in extra : \A m \in extra : j <= m) - 1]

\* The argument lists: up to MaxArgs sequences of up to MaxLen items; item i
\* of an argument is the number i.
ZipInputs ==
    UNION {[1..n -> {[i \in 1..len |-> i] : len \in 0..MaxLen}] : n \in 0..MaxArgs}

InitZip ==
    /\ Untouched
    /\ pc = "call"
    /\ arg \in ZipInputs
    /\ retv = None

\* the call safezip(*arg)
CallSafezip ==
    /\ pc = "call"
    /\ pc' = "ret"
    /\ retv' = safezip(arg)
    /\ UNCHANGED <<impl, registry, heap, heap0, arg, argm, stack, memos, calls, rets,
                   task, made, pickles, log>>

NextZip == CallSafezip

SpecZip == InitZip /\ [][NextZip]_vars

\* the shortest length among the arguments (0 when there are none)
MinLen(tozip) ==
    IF tozip = <<>> THEN 0
    ELSE CHOOSE n \in {Len(tozip[j]) : j \in DOMAIN tozip} :
            \A j \in DOMAIN tozip : n <= Len(tozip[j])

\* C22.  safezip(a1, ..., an) raises ValueError whenever two of its
\* arguments have different lengths, wherever the longer one stands and
\* whatever the difference (an earlier argument one item longer than a later
\* one included); when all lengths are equal it returns the list of tuples
\* zip returns, tuple i holding item i of every argument.
C22_SafezipRaises ==
    pc = "ret" =>
        IF \E j, m \in DOMAIN arg : Len(arg[j]) # Len(arg[m])
        THEN retv.err = "ValueError"
        ELSE /\ retv.err = ""
             /\ retv.rv = [i \in 1..MinLen(arg) |-> [j \in DOMAIN arg |-> arg[j][i]]]

\* ======================================================== TestDistribution
\* tests/distributions/distribution.py: the threading of prngstate.  arg is
\* the call instance.name(*args, **kwrds) being made, retv what it did.

\* distribution.py:22
stochastic_methods == {"simulate", "transition_params"}

\* The subclasses of TestDistribution (test_distribution.py:21, normal.py:12
\* and 33) and the methods looked up on their instances: their own, and
\* transition_params, which DistributionGpm gives every one of them.
Distributions == {"TestThreadEnforcement", "Normal", "NormalInvGammaPrior"}
MethodsOf(cls) ==
    {"simulate", "transition_params"}
    \cup (IF cls = "TestThreadEnforcement" THEN {} ELSE {"logpdf"})

\* isinstance(v, (int, RandomState)): bool is a subclass of int,
\* HighEntropyRandomState (entropy.py:17) one of RandomState; long, float,
\* str and None are neither.
IsIntOrRandomState(v) ==
    v[1] \in {"int", "bool", "RandomState", "HighEntropyRandomState"}

\* func(*args, **kwrds): the call of the bound method, recorded
Invoked(func, args, kwrds) ==
    [err |-> "", msg |-> "", names |-> <<>>,
     invoked |-> <<[func |-> func, args |-> args, kwrds |-> kwrds]>>]

\* wrapped with the test for the keyword alone, without the isinstance test
wrapped_any_value(func, args, kwrds) ==
    IF "prngstate" \notin DOMAIN kwrds
    THEN [err |-> "ValueError",
          msg |-> "Need to explicitly specify prngstate in call to function %s ",
          names |-> <<func.__name__>>, invoked |-> <<>>]
    ELSE Invoked(func, args, kwrds)

\* distribution.py:36-43, wrapped(*args, **kwrds) for the wrapper made of
\* func; the message is formatted with names.
wrapped(func, args, kwrds) ==
    IF "prngstate" \notin DOMAIN kwrds \/ ~IsIntOrRandomState(kwrds["prngstate"])
    THEN [err |-> "ValueError",
          msg |-> "Need to explicitly specify prngstate in call to function %s ",
          names |-> <<func.__name__>>, invoked |-> <<>>]
    ELSE Invoked(func, args, kwrds)

\* distribution.py:24-29 and 31-45, instance.name(*args, **kwrds): the
\* lookup TestDistribution.__getattribute__(self, name), which hands back
\* the bound method, inside stochastic_wrapper for a stochastic method, and
\* the call of what it handed back.
CallMethod(cls, name, args, kwrds) ==
    LET attr == [__name__ |-> name, im_class |-> cls]
    IN  IF name \notin MethodsOf(cls)
        THEN [err |-> "AttributeError", msg |-> "", names |-> <<>>, invoked |-> <<>>]
        ELSE IF name \in stochastic_methods THEN wrapped(attr, args, kwrds)
        ELSE Invoked(attr, args, kwrds)

\* the values passed as prngstate or as another argument
PrngValues ==
    {Int1, <<"bool", TRUE>>, <<"long", 1>>, <<"float", 1>>, Str("1"), None,
     <<"RandomState", 0>>, <<"HighEntropyRandomState", 0>>}

\* **kwrds: the keywords given and their values
Keywords ==
    UNION {[S -> PrngValues] : S \in SUBSET {"prngstate", "random_state"}}

\* The calls made: no positional argument, or one, or the prngstate passed
\* by position after one.
MethodCalls ==
    [cls : Distributions, name : {"simulate", "transition_params", "logpdf"},
     args : {<<>>, <<Int1>>} \cup {<<Int1, v>> : v \in {Int1, <<"RandomState", 0>>}},
     kwrds : Keywords]

InitPrng ==
    /\ Untouched
    /\ pc = "call"
    /\ arg \in MethodCalls
    /\ retv = None

CallStochastic ==
    /\ pc = "call"
    /\ pc' = "ret"
    /\ retv' = CallMethod(arg.cls, arg.name, arg.args, arg.kwrds)
    /\ UNCHANGED <<impl, registry, heap, heap0, arg, argm, stack, memos, calls, rets,
                   task, made, pickles, log>>

NextPrng == CallStochastic

SpecPrng == InitPrng /\ [][NextPrng]_vars

\* C23.  On an instance of a subclass of TestDistribution, a call of
\* simulate or transition_params without a keyword argument prngstate whose
\* value is an int or a RandomState raises ValueError with the message
\* 'Need to explicitly specify prngstate in call to function <name> ' and
\* does not invoke the method; with such a keyword the method is invoked
\* once, with exactly the arguments given.
C23_PrngThreadingEnforced ==
    (pc = "ret" /\ arg.name \in {"simulate", "transition_params"}) =>
        IF /\ "prngstate" \in DOMAIN arg.kwrds
           /\ arg.kwrds["prngstate"][1] \in
                 {"int", "bool", "RandomState", "HighEntropyRandomState"}
        THEN /\ retv.err = ""
             /\ Len(retv.invoked) = 1
             /\ retv.invoked[1].func.__name__ = arg.name
             /\ retv.invoked[1].args = arg.args
             /\ retv.invoked[1].kwrds = arg.kwrds
        ELSE /\ retv.err = "ValueError"
             /\ retv.msg = "Need to explicitly specify prngstate in call to function %s "
             /\ retv.names = <<arg.name>>
             /\ retv.invoked = <<>>

\* simulate was called with prngstate=None, and raised
C23_Witness ==
    /\ pc = "ret"
    /\ arg.name = "simulate"
    /\ arg.cls = "TestThreadEnforcement"
    /\ "prngstate" \in DOMAIN arg.kwrds
    /\ arg.kwrds["prngstate"] = None
    /\ retv.err = "ValueError"

\* ---------------------------------------- properties of the step order
\* A new instance is being constructed with the protections on: by C(...)
\* or by pickle.loads through Immutable.__setstate__.
Constructing ==
    /\ task.op \in {"call", "restore"}
    /\ task.full
    /\ __DEBUG__(task.cls)

\* the guard of protect_getattr is in the instance under construction
GuardSet == HasAttr(heap, task.o, "__getattribute__")

Walked(n) == \E p \in rets : p[1] = Ref(n)

\* the values deepfreeze returned in the current top-level call
Results == {p[2] : p \in rets}

\* C25 as stated.  deepfreeze is a pure transformation of its input: after
\* deepfreeze(G) has returned, every container and every object of the
\* original G holds the field and element values it held before the call;
\* the fields of an opaque object are not overwritten with their frozen
\* forms.
C25_InputUnchanged ==
    (Returned /\ Last.err = "") => \A n \in DOMAIN heap0 : heap[n] = heap0[n]

\* C25.  After deepfreeze(G) has returned, every list, tuple, dict, set,
\* frozenset, buffer and wrapper of the original G holds what it held before
\* the call, and so does every object that was not walked; an object that was
\* walked keeps its field names, and each of its fields that is not excluded
\* by the registry has been overwritten in place with a value deepfreeze
\* returned, which is in frozen form.
C25_OnlyFieldsOverwritten ==
    (Returned /\ Last.err = "") =>
        \A n \in DOMAIN heap0 :
            IF heap0[n].kind = "obj" /\ Walked(n)
            THEN /\ heap[n].keys = heap0[n].keys
                 /\ heap[n].cls = heap0[n].cls
                 /\ \A i \in DOMAIN heap0[n].vals :
                       IF impl = "freeze"
                          /\ heap0[n].keys[i] \in get_mutable_attributes(heap0, Ref(n))
                       THEN heap[n].vals[i] = heap0[n].vals[i]
                       ELSE /\ heap[n].vals[i] \in Results
                            /\ KindOf(heap, heap[n].vals[i]) \in FrozenKinds \cup {"ndarray"}
                            /\ ~IsMutable(heap, heap[n].vals[i])
            ELSE heap[n] = heap0[n]

\* an object of the graph had a list in a field, and has a tuple there after
\* the call
C25_Witness ==
    /\ Returned
    /\ Last.err = ""
    /\ \E n \in DOMAIN heap0 :
          /\ heap0[n].kind = "obj"
          /\ \E i \in DOMAIN heap0[n].vals :
                /\ KindOf(heap0, heap0[n].vals[i]) = "list"
                /\ KindOf(heap, heap[n].vals[i]) = "tuple"

\* C26.  Field freezing honours the exclusion registry: when deepfreeze has
\* walked an object with fields, each field whose name is registered for the
\* class of the object still holds its original raw value, and every other
\* field holds a frozen value that deepfreeze returned.
C26_RegistryHonoured ==
    (Returned /\ Last.err = "") =>
        \A n \in DOMAIN heap0 :
            (heap0[n].kind = "obj" /\ Walked(n)) =>
                \A i \in DOMAIN heap0[n].vals :
                    IF heap0[n].keys[i] \in get_mutable_attributes(heap0, Ref(n))
                    THEN heap[n].vals[i] = heap0[n].vals[i]
                    ELSE /\ heap[n].vals[i] \in Results
                         /\ ~IsMutable(heap, heap[n].vals[i])

\* ------------------------------------------------ properties of termination
\* no cell of h is reachable from itself
Acyclic(h) == \A n \in DOMAIN h : n \notin ReachVia(h, Kids(h, n), AllKinds)

\* C27.  Termination: a deepfreeze call on a finite acyclic graph finishes,
\* by returning or by raising, and while it runs no container or object is
\* entered that the call is already inside of (each is on a path of the
\* recursion at most once).
C27_Terminates ==
    /\ [](Acyclic(heap0) => \A i, j \in DOMAIN stack : i < j => stack[i].o # stack[j].o)
    /\ (pc # "idle" /\ Acyclic(heap0)) ~> (pc = "idle" /\ calls # <<>>)

\* a call on an acyclic graph of two nested containers went two levels deep
\* and has returned
C27_Witness ==
    /\ pc = "idle"
    /\ Len(calls) = 1
    /\ calls[1].out # None
    /\ Acyclic(heap0)
    /\ Len(heap0) = 2
    /\ heap0[1].kind = "list"
    /\ heap0[2].kind = "dict"
    /\ \E r \in {x[2] : x \in rets} : <<Ref(2), r>> \in rets

\* ============================================================ test_generator
\* tests/util/test_statistic_threshold.py.  The generator is modelled by the
\* statistics its successive calls return.
MaxNs == 3
Statistics == 0..2
Thresholds == 1..2
\* probfail is a probability estimate; 0 is the estimate that divides by zero
Probfails == 0..2

\* The raise statement `raise instance, value`: an exception instance may
\* not be given a separate value.
raise(instance, value) == IF value # None THEN "TypeError" ELSE instance

\* The message of the raise statement, '...' % (generator, threshold, ns,
\* 1/probfail): the error its evaluation ends in, "" for none.
Message(probfail) == IF probfail = 0 THEN "ZeroDivisionError" ELSE ""

\* for numfailures in range(ns), from numfailures on: the generator is called
\* once per round; the loop returns at the first statistic >= threshold.
RECURSIVE test_generator_loop(_, _, _, _, _)
test_generator_loop(generator, ns, threshold, probfail, numfailures) ==
    IF numfailures >= ns
    THEN IF Message(probfail) # ""
         THEN [err |-> Message(probfail), rv |-> None, drawn |-> numfailures]
         ELSE [err |-> raise("MultipleTestStatisticFailures", Str("msg")),
               rv |-> None, drawn |-> numfailures]
    ELSE IF generator[numfailures + 1] >= threshold
         THEN [err |-> "", rv |-> numfailures, drawn |-> numfailures + 1]
         ELSE test_generator_loop(generator, ns, threshold, probfail, numfailures + 1)

test_generator(generator, ns, threshold, probfail) ==
    test_generator_loop(generator, ns, threshold, probfail, 0)

GeneratorCalls ==
    [generator : [1..MaxNs -> Statistics], ns : 0..MaxNs,
     threshold : Thresholds, probfail : Probfails]

InitGen ==
    /\ Untouched
    /\ pc = "call"
    /\ arg \in GeneratorCalls
    /\ retv = None

CallTestGenerator ==
    /\ pc = "call"
    /\ pc' = "ret"
    /\ retv' = test_generator(arg.generator, arg.ns, arg.threshold, arg.probfail)
    /\ UNCHANGED <<impl, registry, heap, heap0, arg, argm, stack, memos, calls, rets, life>>

NextGen == CallTestGenerator

SpecGen == InitGen /\ [][NextGen]_vars

\* ---------------------------------------------- properties of test_generator
\* statistics i of the first ns are all below the threshold
AllBelow(c, n) == \A i \in 1..n : c.generator[i] < c.threshold

\* C28.  test_generator calls the generator at most ns times, returns at the
\* first statistic >= threshold the number of statistics drawn before it, all
\* of them below the threshold, and raises MultipleTestStatisticFailures if
\* and only if all ns statistics drawn were below the threshold.
C28_TestGenerator ==
    pc = "ret" =>
        /\ retv.drawn <= arg.ns
        /\ retv.err = "" =>
              /\ retv.rv = retv.drawn - 1
              /\ AllBelow(arg, retv.rv)
              /\ arg.generator[retv.drawn] >= arg.threshold
        /\ retv.err = "MultipleTestStatisticFailures" <=> AllBelow(arg, arg.ns)
        /\ retv.err \in {"", "MultipleTestStatisticFailures"}

\* ============================================================== random_state
\* tests/util/entropy.py.  A Python integer has no width; it is modelled by
\* its sign and its base-2^16 digits, least significant first, without
\* leading zero digits, and a 32-bit word by its two digits <<low, high>>.
MaxLimbs == 5
LimbBase == 65536
Limbs == {0, 1, LimbBase - 1}

Magnitudes ==
    {l \in UNION {[1..n -> Limbs] : n \in 0..MaxLimbs} : l = <<>> \/ l[Len(l)] # 0}

IntSeeds == {[kind |-> "int", neg |-> FALSE, limbs |-> l] : l \in Magnitudes}

Seeds ==
    IntSeeds
    \cup {[kind |-> "int", neg |-> TRUE, limbs |-> l] : l \in Magnitudes \ {<<>>}}
    \cup {[kind |-> "bool", neg |-> FALSE, limbs |-> l] : l \in {<<>>, <<1>>}}
    \cup {[kind |-> "float", neg |-> n, limbs |-> <<>>] : n \in BOOLEAN}
    \cup {[kind |-> k, neg |-> FALSE, limbs |-> <<>>] : k \in {"str", "none", "complex"}}

\* seed < 0 can be evaluated: a complex number has no ordering, the
\* comparison raises TypeError
Ordered(seed) == seed.kind # "complex"

\* seed < 0: by sign for a number; None sorts below and a string above every
\* number
SeedLtZero(seed) ==
    CASE seed.kind \in {"int", "bool", "float"} -> seed.neg
      [] seed.kind = "none" -> TRUE
      [] seed.kind = "str" -> FALSE

\* isinstance(seed, numbers.Integral)
IsIntegral(seed) == seed.kind \in {"int", "bool"}

Limb(l, i) == IF i <= Len(l) THEN l[i] ELSE 0

\* seed & word_mask
word_mask(l) == <<Limb(l, 1), Limb(l, 2)>>

\* seed >> 32
ShiftRight32(l) == IF Len(l) <= 2 THEN <<>> ELSE SubSeq(l, 3, Len(l))

\* while seed: seed_array.append(seed & word_mask); seed >>= 32
RECURSIVE seed_words(_, _)
seed_words(l, seed_array) ==
    IF l = <<>> THEN seed_array
    ELSE seed_words(ShiftRight32(l), Append(seed_array, word_mask(l)))

Max(a, b) == IF a >= b THEN a ELSE b

random_state(seed) ==
    IF ~Ordered(seed) THEN [err |-> "TypeError", rv |-> None]
    ELSE IF SeedLtZero(seed) \/ ~IsIntegral(seed) THEN [err |-> "ValueError", rv |-> None]
    ELSE LET seed_array == seed_words(seed.limbs, <<>>)
         IN  [err |-> "",
              rv |-> seed_array \o [i \in 1..Max(0, 2 - Len(seed_array)) |-> <<0, 0>>]]

InitSeed ==
    /\ Untouched
    /\ pc = "call"
    /\ arg \in Seeds
    /\ retv = None

CallRandomState ==
    /\ pc = "call"
    /\ pc' = "ret"
    /\ retv' = random_state(arg)
    /\ UNCHANGED <<impl, registry, heap, heap0, arg, argm, stack, memos, calls, rets, life>>

NextSeed == CallRandomState

SpecSeed == InitSeed /\ [][NextSeed]_vars

\* ------------------------------------------------ properties of random_state
\* the base-2^16 digits of the number whose base-2^32 digits are the words
RECURSIVE DigitsOf(_)
DigitsOf(words) ==
    IF words = <<>> THEN <<>> ELSE <<words[1][1], words[1][2]>> \o DigitsOf(Tail(words))

RECURSIVE Normalised(_)
Normalised(l) ==
    IF l # <<>> /\ l[Len(l)] = 0 THEN Normalised(SubSeq(l, 1, Len(l) - 1)) ELSE l

NonNegativeInteger(seed) == IsIntegral(seed) /\ ~seed.neg

SeedArrayOf(seed) ==
    /\ Len(retv.rv) >= 2
    /\ \A i \in DOMAIN retv.rv : \A j \in 1..2 : retv.rv[i][j] \in 0..(LimbBase - 1)
    /\ Normalised(DigitsOf(retv.rv)) = seed.limbs
    /\ \A other \in IntSeeds : other.limbs # seed.limbs => random_state(other).rv # retv.rv

\* C29.  For a non-negative integer seed the seed array has at least two
\* words, each in [0, 2^32), the words are the base-2^32 digits of the seed
\* least significant first, and distinct seeds give distinct arrays; a
\* negative or non-integral seed raises ValueError.
C29_RandomState ==
    pc = "ret" =>
        IF NonNegativeInteger(arg)
        THEN retv.err = "" /\ SeedArrayOf(arg)
        ELSE retv.err = "ValueError"

\* ======================================================= one-shot training
\* tests/distributions/bdb.py (class BDB) and tests/bdb_test_distributions.py
\* (class BayesDBTestDistribution).  The instance is the cell heap[1], the
\* commands its database has executed are in log, and calls holds the step
\* calls made on the instance after its construction.
MaxStepCalls == 3

BdbClasses == {"BDB", "BayesDBTestDistribution"}
Steps == {"_populate_model", "_create_chains", "_analyze"}
Prng == <<"HighEntropyRandomState", 0>>

\* forbidden(self, message) returns the inner function; the inner function
\* has a parameter of its own called message.
forbidden(message) == <<"forbidden", message>>

\* inner(*args): forbidden(message) takes exactly one argument and raises
\* RuntimeError(message) with it
forbidden_call(args) ==
    IF Len(args) # 1 THEN [err |-> "TypeError", out |-> None]
    ELSE [err |-> "RuntimeError", out |-> args[1]]

Executed(lg, cmds) == lg \o cmds

\* self.seed(prngstate): the error it ends in, "" for none
seed(cls, prngstate) ==
    IF prngstate = Prng THEN ""
    ELSE IF cls = "BDB" THEN "TypeError" ELSE "AttributeError"

Done(h, lg, err, out) == [h |-> h, log |-> lg, err |-> err, out |-> out]

_populate_model(h, lg, self) ==
    Done(SetAttr(h, self, "_populate_model", forbidden(Str("Already populated"))),
         Executed(lg, <<"CREATE TABLE", "INSERT">>), "", None)

_create_chains(h, lg, self, numchains, prngstate) ==
    IF seed(h[Id(self)].cls, prngstate) # ""
    THEN Done(h, lg, seed(h[Id(self)].cls, prngstate), None)
    ELSE IF numchains = None
    THEN Done(h, Executed(lg, <<"CREATE GENERATOR">>), "TypeError", None)
    ELSE Done(SetAttr(h, self, "_create_chains", forbidden(Str("Already created"))),
              Executed(lg, <<"CREATE GENERATOR", "INITIALIZE">>), "", None)

_analyze(h, lg, self, numiterations, prngstate) ==
    IF seed(h[Id(self)].cls, prngstate) # ""
    THEN Done(h, lg, seed(h[Id(self)].cls, prngstate), None)
    ELSE IF numiterations = None
    THEN Done(h, lg, "TypeError", None)
    ELSE Done(SetAttr(h, self, "_analyze", forbidden(Str("Already analyzed"))),
              Executed(lg, <<"ANALYZE">>), "", None)

\* self.<name>(*args): the attribute in the instance's __dict__ if there is
\* one (a plain function, called without self), else the class's method.
CallStep(h, lg, self, name, args) ==
    IF HasAttr(h, self, name)
    THEN Done(h, lg, forbidden_call(args).err, forbidden_call(args).out)
    ELSE CASE name = "_populate_model" -> _populate_model(h, lg, self)
           [] name = "_create_chains" -> _create_chains(h, lg, self, args[1], args[2])
           [] name = "_analyze" ->
                _analyze(h, lg, self, args[1], IF Len(args) = 2 THEN args[2] ELSE None)

\* __init__ of a fresh instance (bdb is None): the three steps in order; BDB
\* checks numchains and numiterations for None before the step that uses
\* them.
BdbInit(h, self, numchains, prngstate, numiterations) ==
    LET cls == h[Id(self)].cls
        p == CallStep(h, <<>>, self, "_populate_model", <<>>)
        c == CallStep(p.h, p.log, self, "_create_chains", <<numchains, prngstate>>)
        a == CallStep(c.h, c.log, self, "_analyze", <<numiterations, prngstate>>)
    IN  IF cls = "BDB" /\ numchains = None THEN Done(p.h, p.log, "ValueError", None)
        ELSE IF c.err # "" THEN c
        ELSE IF cls = "BDB" /\ numiterations = None THEN Done(c.h, c.log, "ValueError", None)
        ELSE a

Counts == {None, Int1, Int2}

InitBdb ==
    /\ impl = "immutable"
    /\ registry = Registered
    /\ heap = <<>>
    /\ heap0 = <<>>
    /\ pc = "idle"
    /\ arg = None
    /\ argm = 0
    /\ retv = None
    /\ stack = <<>>
    /\ memos = <<>>
    /\ calls = <<>>
    /\ rets = {}
    /\ task = NoTask
    /\ made = <<>>
    /\ pickles = <<>>
    /\ log = <<>>

\* cls(sample, prngstate, numchains, numiterations); an instance whose
\* __init__ raised is not handed out
ConstructBdb(cls, numchains, numiterations) ==
    /\ heap = <<>>
    /\ LET r == BdbInit(<<Cell("obj", cls, <<>>, <<>>, FALSE)>>, Ref(1),
                        numchains, Prng, numiterations)
       IN  /\ heap' = r.h
           /\ log' = r.log
           /\ retv' = IF r.err = "" THEN Ref(1) ELSE Raise(r.err)
           /\ made' = IF r.err = "" THEN <<Ref(1)>> ELSE <<>>
    /\ arg' = <<Str(cls), numchains, numiterations>>
    /\ UNCHANGED <<impl, registry, heap0, pc, argm, stack, memos, calls, rets, task, pickles>>

\* a later self.<name>(*args) on the instance that was handed out
CallAgain(name, args) ==
    /\ made # <<>>
    /\ Len(calls) < MaxStepCalls
    /\ LET r == CallStep(heap, log, made[1], name, args)
       IN  /\ heap' = r.h
           /\ log' = r.log
           /\ retv' = IF r.err = "" THEN r.out ELSE Raise(r.err)
           /\ calls' = Append(calls, [in |-> <<Str(name)>> \o args, out |-> r.out,
                                      err |-> r.err, cmds |-> Len(r.log) - Len(log)])
    /\ arg' = made[1]
    /\ UNCHANGED <<impl, registry, heap0, pc, argm, stack, memos, rets, task, made, pickles>>

\* the arguments the class's own __init__ gives each step, and _analyze
\* with its prngstate left to the default
StepArgs(name) ==
    CASE name = "_populate_model" -> {<<>>}
      [] name = "_create_chains" -> {<<n, Prng>> : n \in Counts \ {None}}
      [] name = "_analyze" ->
            {<<n, Prng>> : n \in Counts \ {None}} \cup {<<n>> : n \in Counts \ {None}}

NextBdb ==
    \/ \E cls \in BdbClasses, numchains \in Counts, numiterations \in Counts :
          ConstructBdb(cls, numchains, numiterations)
    \/ \E name \in Steps : \E args \in StepArgs(name) : CallAgain(name, args)

SpecBdb == InitBdb /\ [][NextBdb]_vars

\* ------------------------------------------- properties of one-shot training
Already(name) ==
    CASE name = "_populate_model" -> Str("Already populated")
      [] name = "_create_chains" -> Str("Already created")
      [] name = "_analyze" -> Str("Already analyzed")

Times(lg, cmd) == Cardinality({i \in DOMAIN lg : lg[i] = cmd})

\* C30.  Each of _populate_model, _create_chains and _analyze executes its
\* database commands at most once on an instance; a later call of a step
\* that has run raises RuntimeError with the step's 'Already ...' message
\* and issues no database command.
C30_OneShotSteps ==
    /\ \A cmd \in Range(log) : Times(log, cmd) <= 1
    /\ \A i \in DOMAIN calls :
          /\ calls[i].err = "RuntimeError"
          /\ calls[i].out = Already(calls[i].in[1][2])
          /\ calls[i].cmds = 0
====
